---- MODULE Spec2Model ----
(***************************************************************************)
(* Model of the heading-section overlay of deepwiki-pp: the control        *)
(* overlay manager (ButtonManagerService with HeadingElementFinder) acting *)
(* on the live document, and the content-script orchestrators that drive   *)
(* it.                                                                     *)
(*                                                                         *)
(* Text is a sequence of one-character strings, so trimming, whitespace    *)
(* normalisation, prefix and substring tests are computed, not assumed.    *)
(* The document is the ordered list of its heading elements plus the set   *)
(* of control (button) elements it currently contains.                     *)
(***************************************************************************)
EXTENDS Integers, Sequences, FiniteSets, TLC

(***************************************************************************)
(* Bounds of the model.                                                    *)
(***************************************************************************)
MaxHeadings == 2
MaxSections == 2
\* extraction passes that may be suspended at the same time
MaxPasses == 2
\* characters of body text that follow each heading of the page
ParagraphChars == 60
\* pending timers of one kind (history checks, page-change delays)
MaxTimers == 1
\* navigations and content changes of the page in one run of SpecContent
MaxEvents == 4

\* HeadingExtractorService.isValidContainer
MinContainerText == 50
\* PageValidator.hasValidContent
MinPageText == 100
\* ChromeDomGateway.waitForContentStabilization
RequiredStableChecks == 3
CheckInterval == 200
MaxWaitTime == 2000

(***************************************************************************)
(* Text.                                                                   *)
(***************************************************************************)
IsSpace(c) == c = " "

RECURSIVE TrimLeft(_)
TrimLeft(s) ==
  IF s = <<>> THEN s
  ELSE IF IsSpace(Head(s)) THEN TrimLeft(Tail(s)) ELSE s

RECURSIVE TrimRight(_)
TrimRight(s) ==
  IF s = <<>> THEN s
  ELSE IF IsSpace(s[Len(s)]) THEN TrimRight(SubSeq(s, 1, Len(s) - 1)) ELSE s

\* String.prototype.trim
Trim(s) == TrimRight(TrimLeft(s))

\* text.replace(/\s+/g, r): every maximal run of whitespace becomes r
RECURSIVE ReplaceSpaceRuns(_, _)
ReplaceSpaceRuns(s, r) ==
  IF s = <<>> THEN <<>>
  ELSE IF IsSpace(Head(s)) THEN r \o ReplaceSpaceRuns(TrimLeft(s), r)
  ELSE <<Head(s)>> \o ReplaceSpaceRuns(Tail(s), r)

\* DomHelpers.normalizeText: text.replace(/\s+/g, " ").trim()
NormalizeText(s) == Trim(ReplaceSpaceRuns(s, <<" ">>))

\* String.prototype.startsWith / includes
StartsWith(s, p) == Len(p) <= Len(s) /\ SubSeq(s, 1, Len(p)) = p
Includes(s, p) ==
  \E i \in 1..(Len(s) - Len(p) + 1) : SubSeq(s, i, i + Len(p) - 1) = p

UpperCaseLetters ==
  <<"A", "B", "C", "D", "E", "F", "G", "H", "I", "J", "K", "L", "M",
    "N", "O", "P", "Q", "R", "S", "T", "U", "V", "W", "X", "Y", "Z">>
LowerCaseLetters ==
  <<"a", "b", "c", "d", "e", "f", "g", "h", "i", "j", "k", "l", "m",
    "n", "o", "p", "q", "r", "s", "t", "u", "v", "w", "x", "y", "z">>

ToLowerChar(c) ==
  IF \E i \in 1..26 : UpperCaseLetters[i] = c
  THEN LowerCaseLetters[CHOOSE i \in 1..26 : UpperCaseLetters[i] = c]
  ELSE c

ToLowerCase(s) == [i \in 1..Len(s) |-> ToLowerChar(s[i])]

IsIdChar(c) == c \in {"A", "C", "a", "b", "c", "d", "-"}

RECURSIVE KeepIdChars(_)
KeepIdChars(s) ==
  IF s = <<>> THEN <<>>
  ELSE IF IsIdChar(Head(s)) THEN <<Head(s)>> \o KeepIdChars(Tail(s))
  ELSE KeepIdChars(Tail(s))

\* The texts used by the model
TxtAb    == <<"A", "b">>
TxtA_b   == <<"A", " ", "b">>
TxtA__b  == <<"A", " ", " ", "b">>
TxtAbc   == <<"A", "b", "c">>

\* the heading elements a page may hold (level, textContent) ...
HeadingElements ==
  {[level |-> 2, text |-> TxtAb, processed |-> FALSE],
   [level |-> 2, text |-> TxtA__b, processed |-> FALSE],
   [level |-> 3, text |-> TxtAbc, processed |-> FALSE]}
\* ... and the sections (level, trimmed titleText) handed to the overlay manager:
\* they reach those headings by exact, normalized, partial and index match
SectionPool ==
  {[level |-> 2, titleText |-> TxtAb],
   [level |-> 2, titleText |-> TxtA_b],
   [level |-> 3, titleText |-> TxtAb]}

RECURSIVE SeqsUpTo(_, _)
SeqsUpTo(S, n) ==
  IF n = 0 THEN {<<>>}
  ELSE LET shorter == SeqsUpTo(S, n - 1)
       IN shorter \cup {Append(q, x) : q \in {p \in shorter : Len(p) = n - 1}, x \in S}

IsInjective(q) == \A i, j \in 1..Len(q) : q[i] = q[j] => i = j

\* the section lists a caller may hand to insertButtons (pairwise different
\* sections, as a pass produces them), and the documents a page may start with
SectionLists == {q \in SeqsUpTo(SectionPool, MaxSections) : IsInjective(q)}
InitialDocuments == SeqsUpTo(HeadingElements, MaxHeadings)

\* the headings of the pages the content scripts run on, and the documents
\* such a page may show when the script starts
PageHeadings ==
  {[level |-> 2, text |-> TxtAb, processed |-> FALSE],
   [level |-> 3, text |-> TxtAbc, processed |-> FALSE]}
InitialPages == SeqsUpTo(PageHeadings, MaxHeadings)

Range(f) == {f[x] : x \in DOMAIN f}
EmptyMap == [x \in {} |-> 0]

(***************************************************************************)
(* State.                                                                  *)
(*   dom      : the heading elements of the document, in document order;   *)
(*              each [level, text, processed] (processed: the              *)
(*              data-dwpp-processed attribute).                            *)
(*   controls : the elements with class dwpp-add-section-btn that are in   *)
(*              the document; each [bid, sec, on, stale, stray] with on    *)
(*              the position in dom of the heading it was inserted after   *)
(*              (0: that heading is gone).                                 *)
(*   buttons  : ButtonManagerService.buttons, button id -> element.        *)
(*   lastOp   : history of the last call of insertButtons or               *)
(*              removeAllButtons made on the manager directly ("other":    *)
(*              the last step was not such a call).                        *)
(*   url      : location.href.                                              *)
(*   monitoring, isInitializing, lastUrl, rerunTimer : the state of the    *)
(*              content script (monitoring: startMonitoring has run;       *)
(*              rerunTimer: its 400 ms timer is pending).                  *)
(*   passes   : the calls of initialize / initializePage that are suspended *)
(*              at an await, by slot.                                      *)
(*   hist     : history of the last finished pass, of the last call of     *)
(*              initialize and of the navigations an in-flight pass saw.   *)
(*   spaMonitor : SPAMonitorService: isActive, lastUrl, the batch of       *)
(*              mutations its debounce timer holds ("none": no timer), and *)
(*              the pending 100 ms timers of the wrapped history methods.  *)
(*   pageChangeTimers : the pending 500 ms timers of the navigation        *)
(*              callback of ChromeDomGateway.startSPAMonitoring.           *)
(*   events   : the number of navigations and content changes of the page  *)
(*              so far, where a specification bounds it.                   *)
(*   click    : the feedback of the tracked buttons: state (button id ->    *)
(*              the state ButtonFactory.updateButtonState gave the element), *)
(*              timers (the pending revert timers of handleButtonClick),   *)
(*              adds (button id -> the hand-off of its last click to the   *)
(*              background script), last (history of the last step).       *)
(*   usecase  : one call of AddHeadingSectionUseCase.execute: where it is   *)
(*              (pc), the repository it was constructed with, its input,    *)
(*              the result it resolved to, and what became of the section   *)
(*              (failure: what went wrong, stored: the section is saved).   *)
(*   spa      : SPAMonitorService field by field, with what it installs in  *)
(*              the window: history (the wrappers around the native         *)
(*              pushState and replaceState, outermost first), popstate (its *)
(*              listener is registered), observer (its MutationObserver is  *)
(*              connected), navigationChecks (pending 100 ms timers), and   *)
(*              the history of its deliveries (notified, invoked, caught,   *)
(*              last).                                                      *)
(*   unloaded : stopMonitoring of the content script has run (beforeunload). *)
(*   waiter   : one call of waitForElement / waitForHeadings: its timer    *)
(*              and observer, the clock since the call (elapsed), whether   *)
(*              the selector matches in the container (present), and its    *)
(*              history: the calls of resolve that were made (resolved),    *)
(*              the mutations of the container (mutations; after: those     *)
(*              after the resolution) and the runs of the observer callback *)
(*              (calls; late: those after the resolution).                  *)
(*   parser   : one call on the heading parser, the heading extractor, the  *)
(*              section factory or the container finder: the sibling        *)
(*              elements of the container it reads (container), the options *)
(*              of the parser, the source URL, the parameters of the        *)
(*              factory call (params), the candidates of the finder         *)
(*              (page), and what the call returned (result).                *)
(*   store    : the sections in chrome.storage under the storage key        *)
(*              (sections), what it held at first (initial), and the calls  *)
(*              of the use cases and of the repository on it (calls).       *)
(*   wiring   : the click callbacks of the mounted controls of               *)
(*              entrypoints/content/index.ts: started (main has run),       *)
(*              onButtonClick (button id -> the callback insertButtons was  *)
(*              given for it), reinitializeTimer (the 500 ms timer of       *)
(*              debouncedReinitialize is pending), last (the last click).   *)
(*   collector : HeadingSectionContentScript: collectedSections, the        *)
(*              collect requests in flight (requests), the sectionIds the   *)
(*              background script has stored (stored) and the headings of   *)
(*              the hand-offs it answered with success, in order            *)
(*              (handedOver).                                               *)
(***************************************************************************)
VARIABLES dom, controls, buttons, lastOp,
          url, monitoring, isInitializing, lastUrl, rerunTimer, passes, hist,
          spaMonitor, pageChangeTimers, events,
          click, usecase, spa, unloaded, waiter, parser, store, wiring, collector

overlayVars == <<dom, controls, buttons, lastOp>>
deepwikiVars == <<monitoring, isInitializing, lastUrl, rerunTimer>>
gatewayVars == <<spaMonitor, pageChangeTimers, events>>
serviceVars == <<click, usecase, spa, unloaded, waiter, parser, store, wiring, collector>>
scriptVars == <<url, monitoring, isInitializing, lastUrl, rerunTimer, passes, hist,
                spaMonitor, pageChangeTimers, events, serviceVars>>
vars == <<dom, controls, buttons, lastOp,
          url, monitoring, isInitializing, lastUrl, rerunTimer, passes, hist,
          spaMonitor, pageChangeTimers, events, serviceVars>>

Overlay == [dom |-> dom, controls |-> controls, buttons |-> buttons, skipped |-> 0]

(***************************************************************************)
(* HeadingElementFinder                                                    *)
(***************************************************************************)
\* DomHelpers.safeQuerySelectorAll(`h${level}`): positions in document order
HeadingsOfLevel(d, level) == SelectSeq([k \in 1..Len(d) |-> k], LAMBDA k : d[k].level = level)

\* the first of the positions a search kept, or 0 when it kept none
FirstOf(hits) == IF hits = <<>> THEN 0 ELSE Head(hits)

FindExactMatch(d, headings, section) ==
  FirstOf(SelectSeq(headings, LAMBDA k : Trim(d[k].text) = section.titleText))

FindNormalizedMatch(d, headings, section) ==
  FirstOf(SelectSeq(headings,
    LAMBDA k : NormalizeText(Trim(d[k].text)) = NormalizeText(section.titleText)))

FindPartialMatch(d, headings, section) ==
  FirstOf(SelectSeq(headings,
    LAMBDA k : LET headingText == Trim(d[k].text)
               IN \/ StartsWith(headingText, section.titleText)
                  \/ StartsWith(section.titleText, headingText)
                  \/ Includes(headingText, section.titleText)
                  \/ Includes(section.titleText, headingText)))

FindIndexMatch(d, headings, index) ==
  IF index < Len(headings) THEN headings[index + 1] ELSE 0

\* HeadingElementFinder.find: the position of the heading element, 0 for null
FindHeading(d, section, index) ==
  LET headings == HeadingsOfLevel(d, section.level)
      exact == FindExactMatch(d, headings, section)
      normalized == FindNormalizedMatch(d, headings, section)
      partial == FindPartialMatch(d, headings, section)
  IN IF exact # 0 THEN exact
     ELSE IF normalized # 0 THEN normalized
     ELSE IF partial # 0 THEN partial
     ELSE FindIndexMatch(d, headings, index)

(***************************************************************************)
(* ButtonManagerService                                                    *)
(***************************************************************************)
\* generateButtonId: `dwpp-btn-${index}-${normalizedTitle}`
GenerateButtonId(section, index) ==
  <<index, ToLowerCase(KeepIdChars(ReplaceSpaceRuns(section.titleText, <<"-">>)))>>

\* (mutant) the tracked buttons leave the document but buttons.clear() is missing
RemoveTrackedButtons_NoClear(st) ==
  [st EXCEPT !.controls = @ \ Range(st.buttons)]

\* ButtonFactory.removeButton for every tracked button, then buttons.clear()
RemoveTrackedButtons(st) ==
  [st EXCEPT !.controls = @ \ Range(st.buttons), !.buttons = EmptyMap]

\* (mutant) no sweep of the document for untracked controls
RemoveButtonsByClass_NoSweep(st) == st

\* safeQuerySelectorAll(`.${buttonClass}`).forEach(safeRemoveElement)
RemoveButtonsByClass(st) == [st EXCEPT !.controls = {}]

\* (mutant) the processed attributes are left on the headings
RemoveProcessedAttributes_Kept(st) == st

\* safeQuerySelectorAll(`[${processedAttribute}]`).forEach(safeRemoveAttribute)
RemoveProcessedAttributes(st) ==
  [st EXCEPT !.dom = [k \in DOMAIN @ |-> [@[k] EXCEPT !.processed = FALSE]]]

RemoveAllButtons(st) ==
  RemoveProcessedAttributes(RemoveButtonsByClass(RemoveTrackedButtons(st)))

\* insertButton: after the heading (its parent exists for every element the
\* document query returned, and safeInsertElement then succeeds), so the
\* inline and in-parent fallbacks are never needed for an attached heading.
InsertButton(st, k, button) ==
  k \in 1..Len(st.dom)

\* (mutant) the processed marker is not consulted
AlreadyProcessed_Ignored(st, k) == FALSE

\* the headingElement.hasAttribute(processedAttribute) test of insertButtons
AlreadyProcessed(st, k) == st.dom[k].processed

\* one iteration of the sections.forEach of insertButtons
InsertOne(st, section, index) ==
  LET buttonId == GenerateButtonId(section, index)
      k == FindHeading(st.dom, section, index)
      button == [bid |-> buttonId, sec |-> section, on |-> k,
                 stale |-> FALSE, stray |-> FALSE]
  IN IF buttonId \in DOMAIN st.buttons THEN st
     ELSE IF k = 0 THEN st
     ELSE IF AlreadyProcessed(st, k) THEN [st EXCEPT !.skipped = @ + 1]
     ELSE IF InsertButton(st, k, button)
          THEN [st EXCEPT
                  !.controls = @ \cup {button},
                  !.buttons = [b \in DOMAIN @ \cup {buttonId} |->
                                 IF b = buttonId THEN button ELSE @[b]],
                  !.dom[k].processed = TRUE]
          ELSE st

RECURSIVE InsertLoop(_, _, _)
InsertLoop(st, sections, index) ==
  IF index >= Len(sections) THEN st
  ELSE InsertLoop(InsertOne(st, sections[index + 1], index), sections, index + 1)

\* history only: every control element that is still around when the insertion
\* loop starts was mounted by an earlier call
MarkStale(st) ==
  [st EXCEPT !.controls = {[c EXCEPT !.stale = TRUE] : c \in @},
             !.buttons = [b \in DOMAIN @ |-> [@[b] EXCEPT !.stale = TRUE]]]

InsertButtons(st, sections) ==
  InsertLoop(MarkStale(RemoveAllButtons(st)), sections, 0)

GetButtonCount == Cardinality(DOMAIN buttons)

(***************************************************************************)
(* HeadingExtractorService, with HeadingParser.parseFromContainer          *)
(***************************************************************************)
IsDigit(c) == c \in {"0", "1", "2", "3", "4", "5", "6", "7", "8", "9"}

\* /^\d+\.?$/
IsNumbering(text) ==
  LET digits == IF text # <<>> /\ text[Len(text)] = "."
                THEN SubSeq(text, 1, Len(text) - 1) ELSE text
  IN digits # <<>> /\ \A i \in 1..Len(digits) : IsDigit(digits[i])

\* /^[#\-\*\+\s]+$/
IsSymbolsOnly(text) ==
  text # <<>> /\ \A i \in 1..Len(text) : text[i] \in {"#", "-", "*", "+", " "}

\* isValidHeading (every heading element of the model is displayed)
IsValidHeading(h) ==
  LET text == Trim(h.text) IN Len(text) >= 2 /\ ~IsNumbering(text)

FindHeadingElements(d) == SelectSeq(d, IsValidHeading)

\* the length of container.textContent: the text of the headings and of the
\* paragraph that follows each of them
RECURSIVE ContainerTextLength(_)
ContainerTextLength(d) ==
  IF d = <<>> THEN 0
  ELSE Len(Head(d).text) + ParagraphChars + ContainerTextLength(Tail(d))

IsValidContainer(d) ==
  /\ ContainerTextLength(d) >= MinContainerText
  /\ FindHeadingElements(d) # <<>>

\* parseFromContainer: a section per heading element, in document order; a
\* heading whose section cannot be created (empty title) only gives a warning
RECURSIVE ParseFromContainer(_)
ParseFromContainer(d) ==
  IF d = <<>> THEN <<>>
  ELSE LET titleText == Trim(Head(d).text)
       IN (IF titleText = <<>> THEN <<>>
           ELSE <<[level |-> Head(d).level, titleText |-> titleText]>>)
          \o ParseFromContainer(Tail(d))

ExcludedTitles ==
  {<<"t", "a", "b", "l", "e", " ", "o", "f", " ", "c", "o", "n", "t", "e", "n", "t", "s">>,
   <<"t", "a", "b", "l", "e", " ", "o", "f", " ", "c", "o", "n", "t", "e", "n", "t">>,
   <<"t", "o", "c">>,
   <<"c", "o", "n", "t", "e", "n", "t", "s">>,
   <<"c", "o", "n", "t", "e", "n", "t">>,
   <<"i", "n", "d", "e", "x">>,
   <<"r", "e", "f", "e", "r", "e", "n", "c", "e", "s">>,
   <<"r", "e", "f", "e", "r", "e", "n", "c", "e">>,
   <<"b", "i", "b", "l", "i", "o", "g", "r", "a", "p", "h", "y">>,
   <<"f", "o", "o", "t", "n", "o", "t", "e", "s">>,
   <<"f", "o", "o", "t", "n", "o", "t", "e">>,
   <<"s", "e", "e", " ", "a", "l", "s", "o">>}

\* (mutant) the patterns are matched in the letter case of the title
ShouldExcludeSection_CaseSensitive(section) ==
  LET title == Trim(section.titleText)
  IN \/ ReplaceSpaceRuns(title, <<" ">>) \in ExcludedTitles
     \/ IsNumbering(title)
     \/ IsSymbolsOnly(title)

ShouldExcludeSection(section) ==
  LET title == Trim(ToLowerCase(section.titleText))
  IN \/ ReplaceSpaceRuns(title, <<" ">>) \in ExcludedTitles
     \/ IsNumbering(title)
     \/ IsSymbolsOnly(title)

IsValidSection(section) ==
  /\ section.titleText # <<>>
  /\ Len(Trim(section.titleText)) >= 2
  /\ section.level \in 1..6
  /\ ~ShouldExcludeSection(section)

\* (mutant) the title of a section that is kept is not remembered
RECURSIVE FilterSections_NothingSeen(_, _)
FilterSections_NothingSeen(sections, seenTitles) ==
  IF sections = <<>> THEN <<>>
  ELSE LET section == Head(sections)
       IN IF ~IsValidSection(section) \/ NormalizeText(section.titleText) \in seenTitles
          THEN FilterSections_NothingSeen(Tail(sections), seenTitles)
          ELSE <<section>> \o FilterSections_NothingSeen(Tail(sections), seenTitles)

RECURSIVE FilterSections(_, _)
FilterSections(sections, seenTitles) ==
  IF sections = <<>> THEN <<>>
  ELSE LET section == Head(sections)
           normalizedTitle == NormalizeText(section.titleText)
       IN IF ~IsValidSection(section) \/ normalizedTitle \in seenTitles
          THEN FilterSections(Tail(sections), seenTitles)
          ELSE <<section>> \o
               FilterSections(Tail(sections), seenTitles \cup {normalizedTitle})

ValidateAndFilterSections(sections) == FilterSections(sections, {})

\* HeadingExtractorService.extract
Extract(d) ==
  IF ~IsValidContainer(d) THEN <<>>
  ELSE IF FindHeadingElements(d) = <<>> THEN <<>>
  ELSE ValidateAndFilterSections(ParseFromContainer(d))

\* ChromeDomGateway.extractHeadingSections (the container is never null)
ExtractHeadingSections(d) == Extract(d)

(***************************************************************************)
(* Operations on the overlay.                                              *)
(***************************************************************************)
Before ==
  [trackedSecs |-> {c.sec : c \in Range(buttons) \cap controls},
   inDoc |-> controls # {},
   stray |-> \E c \in controls : c.stray,
   processed |-> \E k \in 1..Len(dom) : dom[k].processed]

NoBefore == [trackedSecs |-> {}, inDoc |-> FALSE, stray |-> FALSE, processed |-> FALSE]

ApplyOverlay(st) ==
  /\ dom' = st.dom
  /\ controls' = st.controls
  /\ buttons' = st.buttons

\* insertButtons(sections, onButtonClick)
InsertButtonsCall(sections) ==
  LET st == InsertButtons(Overlay, sections)
  IN /\ ApplyOverlay(st)
     /\ lastOp' = [op |-> "insert", sections |-> sections, skipped |-> st.skipped,
                   repeat |-> lastOp.op = "insert" /\ lastOp.sections = sections,
                   before |-> Before]

\* removeAllButtons()
RemoveAllButtonsCall ==
  /\ ApplyOverlay(RemoveAllButtons(Overlay))
  /\ lastOp' = [op |-> "remove", sections |-> <<>>, skipped |-> 0,
                repeat |-> FALSE, before |-> Before]

(***************************************************************************)
(* The page: it adds and removes heading elements, and may put back markup *)
(* it serialized earlier (a decorated heading with its control).           *)
(***************************************************************************)
PageOp == [op |-> "other", sections |-> <<>>, skipped |-> 0, repeat |-> FALSE,
           before |-> NoBefore]

PageAppendHeading(h) ==
  /\ Len(dom) < MaxHeadings
  /\ dom' = Append(dom, h)
  /\ lastOp' = PageOp
  /\ UNCHANGED <<controls, buttons>>

\* the element as it is after heading k left the document: a control mounted
\* after it either leaves with it or stays behind without its heading
Reposition(c, k, keep) ==
  IF c.on = k THEN [c EXCEPT !.on = 0]
  ELSE IF c.on > k THEN [c EXCEPT !.on = @ - 1]
  ELSE c

PageRemoveHeading(k, keep) ==
  /\ k \in 1..Len(dom)
  /\ dom' = [i \in 1..(Len(dom) - 1) |-> IF i < k THEN dom[i] ELSE dom[i + 1]]
  /\ controls' = {Reposition(c, k, keep) : c \in {x \in controls : keep \/ x.on # k}}
  /\ buttons' = [b \in DOMAIN buttons |-> Reposition(buttons[b], k, keep)]
  /\ lastOp' = PageOp

PageRestoreMarkup(k) ==
  /\ k \in 1..Len(dom)
  /\ dom' = [dom EXCEPT ![k].processed = TRUE]
  /\ controls' = controls \cup
       {[bid |-> <<0, <<>>>>, sec |-> [level |-> dom[k].level, titleText |-> Trim(dom[k].text)],
         on |-> k, stale |-> TRUE, stray |-> TRUE]}
  /\ lastOp' = PageOp
  /\ UNCHANGED buttons

(***************************************************************************)
(* Extraction passes.  A pass is suspended either in waitForHeadings /     *)
(* waitForElement (no heading in the container yet) or in the sleep of     *)
(* waitForContentStabilization; everything between two suspensions runs    *)
(* without any task of the page in between.                                *)
(***************************************************************************)
Urls == {"/a", "/b"}

NoPass == [pc |-> "none"]
InFlight == {p \in 1..MaxPasses : passes[p].pc # "none"}
FreeSlots == {p \in 1..MaxPasses : passes[p].pc = "none"}
FreeSlot == CHOOSE p \in FreeSlots : \A q \in FreeSlots : p <= q

NewPass(kind) ==
  [pc |-> "waitForHeadings", kind |-> kind, headingsFound |-> FALSE,
   lastHeadingCount |-> 0, stableCount |-> 0, elapsed |-> 0]

\* the body of the while loop of waitForContentStabilization, up to the sleep
StabilizationCheck(pass, currentHeadingCount) ==
  IF currentHeadingCount = pass.lastHeadingCount /\ currentHeadingCount > 0
  THEN [pass EXCEPT !.stableCount = @ + 1]
  ELSE [pass EXCEPT !.stableCount = 0, !.lastHeadingCount = currentHeadingCount]

\* (mutant) the loop has no bound in time
WindowOpen_Always(pass) == TRUE

\* Date.now() - startTime < maxWaitTime, after pass.elapsed sleeps
WindowOpen(pass) == pass.elapsed * CheckInterval < MaxWaitTime

\* the pass as it is when waitForContentStabilization is next suspended, with
\* pc "extract" when the loop is left (stable, or the window is over)
RunStabilization(pass, currentHeadingCount) ==
  IF ~WindowOpen(pass) THEN [pass EXCEPT !.pc = "extract"]
  ELSE LET checked == StabilizationCheck(pass, currentHeadingCount)
       IN IF checked.stableCount >= RequiredStableChecks
          THEN [checked EXCEPT !.pc = "extract"]
          ELSE [checked EXCEPT !.pc = "stabilize"]

\* (mutant) the pass goes on although no heading was found
ContinuesAfterWait_Always(headingsFound) == TRUE

\* if (!headingsFound) return
ContinuesAfterWait(headingsFound) == headingsFound

\* the pass after waitForHeadings resolved with headingsFound: it has returned
\* (pc "return") or is in waitForContentStabilization
AfterWaitForHeadings(pass, headingsFound, currentHeadingCount) ==
  IF ContinuesAfterWait(headingsFound)
  THEN RunStabilization([pass EXCEPT !.headingsFound = headingsFound],
                        currentHeadingCount)
  ELSE [pass EXCEPT !.headingsFound = headingsFound, !.pc = "return"]

\* waitForHeadings resolves at once when the container has a heading element
BeginPass(kind) ==
  IF Len(dom) > 0 THEN AfterWaitForHeadings(NewPass(kind), TRUE, Len(dom))
  ELSE NewPass(kind)

(***************************************************************************)
(* The content script for https://deepwiki.com/* (isInitializing, lastUrl, *)
(* rerun).  isRelevantPage() is true on every page it is injected in, and  *)
(* findMainContentContainer() falls back to document.body.                 *)
(***************************************************************************)
Throws == {"no", "beforeTeardown", "afterTeardown"}

\* the MutationObserver of startMonitoring is connected
Observing == monitoring /\ ~unloaded

\* rerun: whether it (re)starts the 400 ms timer
RerunSchedules(href, last, initializing) == ~(href = last \/ initializing)

Rerun(href, last, initializing) ==
  rerunTimer' = (rerunTimer \/ RerunSchedules(href, last, initializing))

\* (mutant) no re-entrancy test
InitializeGuard_Off(initializing) == FALSE

\* if (isInitializing) return
InitializeGuard(initializing) == initializing

\* (mutant) the flag is cleared only where the pass returns normally
FlagAfterPass_NoFinally(threw) == threw # "no"

\* finally { isInitializing = false }
FlagAfterPass(threw) == FALSE

\* the end of a pass of initialize() that returned before the extraction
ReturnEarly(p, pass) ==
  /\ passes' = [passes EXCEPT ![p] = NoPass]
  /\ isInitializing' = FlagAfterPass("no")
  /\ hist' = [hist EXCEPT !.outcome = "noHeadings", !.callResult = "none",
                          !.headingsFound = pass.headingsFound]
  /\ UNCHANGED <<overlayVars, lastUrl, rerunTimer>>

\* extractHeadingSections, removeAddButtons, insertAddButtons, lastUrl = href,
\* catch, finally; then the MutationObserver callback for the pass's own changes
\* (a pass that threw before removeAddButtons changed nothing)
ExtractAndRefresh(p, pass, threw) ==
  LET st == IF threw = "beforeTeardown" THEN Overlay
            ELSE IF threw = "afterTeardown" THEN RemoveAllButtons(Overlay)
            ELSE InsertButtons(RemoveAllButtons(Overlay), ExtractHeadingSections(dom))
      mutated == threw # "beforeTeardown" /\ (controls # {} \/ st.controls # {})
      last == IF threw = "no" THEN url ELSE lastUrl
  IN /\ ApplyOverlay(st)
     /\ lastOp' = PageOp
     /\ passes' = [passes EXCEPT ![p] = NoPass]
     /\ lastUrl' = last
     /\ isInitializing' = FlagAfterPass(threw)
     /\ IF mutated /\ Observing
        THEN Rerun(url, last, FlagAfterPass(threw))
        ELSE UNCHANGED rerunTimer
     /\ hist' = [hist EXCEPT !.outcome = IF threw = "no" THEN "done" ELSE "threw",
                             !.callResult = "none",
                             !.headingsFound = pass.headingsFound]

\* what a pass of initialize() does once it is resumed, up to its next suspension
Resume(p, pass) ==
  CASE pass.pc = "return" -> ReturnEarly(p, pass)
    [] pass.pc = "extract" -> \E threw \in Throws : ExtractAndRefresh(p, pass, threw)
    [] OTHER -> /\ passes' = [passes EXCEPT ![p] = pass]
                /\ hist' = [hist EXCEPT !.callResult = "none"]
                /\ UNCHANGED <<overlayVars, isInitializing, lastUrl, rerunTimer>>

\* initialize()
Initialize ==
  IF InitializeGuard(isInitializing)
  THEN /\ hist' = [hist EXCEPT !.callResult = "dropped"]
       /\ UNCHANGED <<overlayVars, isInitializing, lastUrl, passes>>
  ELSE /\ FreeSlots # {}
       /\ isInitializing' = TRUE
       /\ passes' = [passes EXCEPT ![FreeSlot] = BeginPass("initialize")]
       /\ hist' = [hist EXCEPT !.callResult = "started", !.navDropped = FALSE]
       /\ UNCHANGED <<overlayVars, lastUrl>>

\* the script starts: initialize(); startMonitoring()
Main ==
  /\ ~monitoring
  /\ monitoring' = TRUE
  /\ Initialize
  /\ UNCHANGED <<url, rerunTimer>>

\* the 400 ms timer of rerun fires
RerunTimerFires ==
  /\ rerunTimer
  /\ rerunTimer' = FALSE
  /\ Initialize
  /\ UNCHANGED <<url, monitoring>>

\* initialize() called while the script runs, by any caller
InitializeCall ==
  /\ monitoring
  /\ Initialize
  /\ UNCHANGED <<url, monitoring, rerunTimer>>

\* pushState, replaceState or popstate: dwpp-location-change, then rerun
LocationChange(u) ==
  /\ monitoring
  /\ url' = u
  /\ Rerun(u, lastUrl, isInitializing)
  /\ hist' = [hist EXCEPT !.navDropped = @ \/ (u # url /\ isInitializing),
                          !.callResult = "none"]
  /\ UNCHANGED <<overlayVars, monitoring, isInitializing, lastUrl, passes>>

\* the page adds a heading: the observer of waitForHeadings resolves the waiting
\* pass, and the observer of startMonitoring calls rerun
HeadingAdded(h) ==
  /\ monitoring
  /\ PageAppendHeading(h)
  /\ passes' = [p \in 1..MaxPasses |->
                         IF passes[p].pc = "waitForHeadings"
                         THEN AfterWaitForHeadings(passes[p], TRUE, Len(dom) + 1)
                         ELSE passes[p]]
  /\ IF Observing THEN Rerun(url, lastUrl, isInitializing) ELSE UNCHANGED rerunTimer
  /\ hist' = [hist EXCEPT !.callResult = "none"]
  /\ UNCHANGED <<url, monitoring, isInitializing, lastUrl>>

\* the page removes a heading, and with it the control mounted after it
HeadingRemoved(k) ==
  /\ monitoring
  /\ PageRemoveHeading(k, FALSE)
  /\ IF Observing THEN Rerun(url, lastUrl, isInitializing) ELSE UNCHANGED rerunTimer
  /\ hist' = [hist EXCEPT !.callResult = "none"]
  /\ UNCHANGED <<url, monitoring, isInitializing, lastUrl, passes>>

\* the timeout of waitForHeadings: resolve(false)
WaitForHeadingsTimeout(p) ==
  /\ passes[p].pc = "waitForHeadings"
  /\ passes[p].kind = "initialize"
  /\ Resume(p, AfterWaitForHeadings(passes[p], FALSE, Len(dom)))
  /\ UNCHANGED <<url, monitoring>>

\* the sleep of waitForContentStabilization is over
StabilizationPoll(p) ==
  /\ passes[p].pc = "stabilize"
  /\ passes[p].kind = "initialize"
  /\ Resume(p, RunStabilization([passes[p] EXCEPT !.elapsed = @ + 1], Len(dom)))
  /\ UNCHANGED <<url, monitoring>>

\* no button is tracked and nothing was clicked
NoClick == [op |-> "none", bid |-> <<>>, section |-> <<>>, during |-> "none",
            threw |-> FALSE]

ClickInit ==
  click = [state |-> EmptyMap, timers |-> <<>>, adds |-> EmptyMap, last |-> NoClick]

NoResult == [success |-> FALSE, errorCode |-> "none"]
NoInput == [level |-> 0, title |-> <<>>, sourceUrl |-> <<>>, content |-> <<>>, id |-> <<>>]

UseCaseInit ==
  usecase = [pc |-> "idle", repository |-> "none", input |-> NoInput,
             failure |-> "none", stored |-> FALSE, result |-> NoResult]

\* history.pushState and history.replaceState as the browser provides them
Native == <<>>

\* an added node: its tag ("#text": not an element), the number of heading
\* elements inside it, the length of its trimmed text, and whether an element
\* matching .markdown-body, article or .prose is inside it
NoElement == [tag |-> "none", headings |-> 0, textLength |-> 0, markdown |-> FALSE]

NoDelivery ==
  [op |-> "none", active |-> FALSE, history |-> Native, changed |-> FALSE,
   navigation |-> 0, content |-> 0, escaped |-> FALSE, caughtBefore |-> 0,
   mutations |-> <<>>, element |-> NoElement]

SpaInit ==
  spa = [isActive |-> FALSE, lastUrl |-> "", observer |-> FALSE,
         debounceTimer |-> [pending |-> FALSE, mutations |-> <<>>],
         navigationCallbacks |-> <<>>, contentCallbacks |-> <<>>,
         original |-> [saved |-> FALSE, fn |-> Native],
         history |-> Native, popstate |-> FALSE, navigationChecks |-> 0,
         notified |-> 0, invoked |-> 0, caught |-> 0, last |-> NoDelivery]

\* no call was made on the parser, and nothing is stored
NoParse ==
  [op |-> "none", container |-> <<>>, options |-> <<>>, sourceUrl |-> <<>>,
   params |-> <<>>, page |-> <<>>, result |-> <<>>]

ParserInit == parser = NoParse

StoreInit == store = [sections |-> <<>>, initial |-> <<>>, calls |-> <<>>]

\* nothing is mounted and nothing was clicked
NoWiredClick == [op |-> "none", bid |-> <<>>, callback |-> "none", handedOff |-> FALSE]

WiringInit ==
  wiring = [started |-> FALSE, onButtonClick |-> EmptyMap, reinitializeTimer |-> FALSE,
            last |-> NoWiredClick]

\* HeadingSectionContentScript after its construction, and what the background
\* script has stored for it
CollectorInit ==
  collector = [collectedSections |-> {}, requests |-> <<>>, stored |-> {},
               handedOver |-> <<>>]

WaiterInit ==
  waiter = [pc |-> "idle", kind |-> "none", timeout |-> 0, elapsed |-> 0,
            observer |-> FALSE, timer |-> FALSE, present |-> FALSE,
            resolved |-> 0, result |-> FALSE, mutations |-> 0, calls |-> 0,
            late |-> 0, after |-> 0]

ServiceInit ==
  /\ ClickInit
  /\ UseCaseInit
  /\ SpaInit
  /\ unloaded = FALSE
  /\ WaiterInit
  /\ ParserInit
  /\ StoreInit
  /\ WiringInit
  /\ CollectorInit

ScriptInit ==
  /\ url = "/a"
  /\ monitoring = FALSE
  /\ isInitializing = FALSE
  /\ lastUrl = url
  /\ rerunTimer = FALSE
  /\ passes = [p \in 1..MaxPasses |-> NoPass]
  /\ hist = [outcome |-> "none", headingsFound |-> FALSE, navDropped |-> FALSE,
             callResult |-> "none"]
  /\ spaMonitor = [isActive |-> FALSE, lastUrl |-> "", debounceTimer |-> "none",
                   navigationChecks |-> 0]
  /\ pageChangeTimers = 0
  /\ events = 0
  /\ ServiceInit

InitGuarded ==
  /\ dom \in InitialPages
  /\ controls = {}
  /\ buttons = EmptyMap
  /\ lastOp = PageOp
  /\ ScriptInit

NextGuarded ==
  \/ Main /\ UNCHANGED <<gatewayVars, serviceVars>>
  \/ RerunTimerFires /\ UNCHANGED <<gatewayVars, serviceVars>>
  \/ \E u \in Urls : LocationChange(u) /\ UNCHANGED <<gatewayVars, serviceVars>>
  \/ \E h \in PageHeadings : HeadingAdded(h) /\ UNCHANGED <<gatewayVars, serviceVars>>
  \/ \E k \in 1..MaxHeadings : HeadingRemoved(k) /\ UNCHANGED <<gatewayVars, serviceVars>>
  \/ \E p \in 1..MaxPasses : WaitForHeadingsTimeout(p) /\ UNCHANGED <<gatewayVars, serviceVars>>
  \/ \E p \in 1..MaxPasses : StabilizationPoll(p) /\ UNCHANGED <<gatewayVars, serviceVars>>

SpecGuarded == InitGuarded /\ [][NextGuarded]_vars

\* beforeunload: stopMonitoring() of the script.  It disconnects the observer of
\* startMonitoring; the listener it names in removeEventListener is a new
\* function, so the dwpp-location-change listener, the history wrappers and the
\* popstate listener of hookHistoryNavigation, and a pending rerun timer stay.
BeforeUnload ==
  /\ monitoring
  /\ unloaded' = TRUE
  /\ UNCHANGED <<overlayVars, url, deepwikiVars, passes, hist, gatewayVars,
                 click, usecase, spa, waiter, parser, store, wiring, collector>>

\* the script with its beforeunload listener
NextUnload ==
  \/ NextGuarded
  \/ BeforeUnload

SpecUnload == InitGuarded /\ [][NextUnload]_vars

\* the same script with initialize() also called from outside its own wiring
NextReentry ==
  \/ NextGuarded
  \/ InitializeCall /\ UNCHANGED <<gatewayVars, serviceVars>>

SpecReentry == InitGuarded /\ [][NextReentry]_vars

(***************************************************************************)
(* The content script of entrypoints/content/index.ts with                 *)
(* ChromeDomGateway.startSPAMonitoring and SPAMonitorService.  The page    *)
(* has the DeepWiki layout and URL, and shows code blocks.                 *)
(***************************************************************************)
PageHasCode == TRUE

\* PageValidator.isValid
IsValidDeepWikiPage(d) ==
  /\ Len(d) > 0
  /\ ContainerTextLength(d) > MinPageText
  /\ (Len(d) >= 2 \/ PageHasCode)

\* the MutationObserver callback of setupContentMonitoring: the debounce timer
\* is restarted and holds the batch of this callback only.  A batch is "block"
\* (an added element with headings inside), "heading" (an added heading element)
\* or "other" (nothing detectSignificantChange returns an element for).
Observed(monitor, batch) ==
  IF monitor.isActive THEN [monitor EXCEPT !.debounceTimer = batch] ELSE monitor

\* ChromeDomGateway.isSignificantContentChange for the element of the batch
IsSignificantContentChange(batch) == batch = "block"

\* index.ts initialize() from removeAddButtons on
RefreshContent(st) ==
  InsertButtons(RemoveAllButtons(st), ExtractHeadingSections(st.dom))

\* initializePage from extractHeadingSections on
RefreshPage(st) ==
  LET sections == ExtractHeadingSections(st.dom)
  IN IF sections = <<>> THEN st
     ELSE InsertButtons(RemoveAllButtons(st), sections)

\* whether going from the present overlay to st added or removed an element
Mutates(st) == st.controls # controls \/ (st.buttons # buttons /\ controls # {})

\* a pass of the gateway or of index.ts once it is resumed
ResumeGateway(p, pass) ==
  LET refresh == IF pass.kind = "contentInitialize" THEN RefreshContent(Overlay)
                 ELSE RefreshPage(Overlay)
  IN IF pass.pc = "extract"
     THEN /\ ApplyOverlay(refresh)
          /\ lastOp' = PageOp
          /\ passes' = [passes EXCEPT ![p] = NoPass]
          /\ spaMonitor' = IF Mutates(refresh) THEN Observed(spaMonitor, "other")
                           ELSE spaMonitor
     ELSE /\ passes' = [passes EXCEPT
                                 ![p] = IF pass.pc = "return" THEN NoPass ELSE pass]
          /\ UNCHANGED <<overlayVars, spaMonitor>>

\* index.ts initialize(): it waits for headings and then refreshes at once
BeginContentPass ==
  IF Len(dom) > 0 THEN [NewPass("contentInitialize") EXCEPT !.pc = "extract",
                                                            !.headingsFound = TRUE]
  ELSE NewPass("contentInitialize")

\* the script starts: initialize(); startMonitoring()
ContentMain ==
  /\ ~spaMonitor.isActive
  /\ LET started == [spaMonitor EXCEPT !.isActive = TRUE, !.lastUrl = url]
         refresh == RefreshContent(Overlay)
     IN IF Len(dom) > 0
        THEN /\ ApplyOverlay(refresh)
             /\ lastOp' = PageOp
             /\ spaMonitor' = IF Mutates(refresh) THEN Observed(started, "other")
                              ELSE started
             /\ UNCHANGED passes
        ELSE /\ passes' = [passes EXCEPT ![FreeSlot] = BeginContentPass]
             /\ spaMonitor' = started
             /\ UNCHANGED overlayVars
  /\ UNCHANGED <<url, hist, pageChangeTimers, deepwikiVars>>

\* checkNavigationChange, and the navigation callback of the gateway:
\* removeAddButtons() and a 500 ms timer for handlePageChange
CheckNavigationChange(monitor, href) ==
  IF href # monitor.lastUrl
  THEN LET st == RemoveAllButtons(Overlay)
           seen == [monitor EXCEPT !.lastUrl = href]
       IN /\ pageChangeTimers < MaxTimers
          /\ ApplyOverlay(st)
          /\ lastOp' = PageOp
          /\ spaMonitor' = IF Mutates(st) THEN Observed(seen, "other") ELSE seen
          /\ pageChangeTimers' = pageChangeTimers + 1
  ELSE /\ spaMonitor' = monitor
       /\ UNCHANGED <<overlayVars, pageChangeTimers>>

\* the page calls pushState or replaceState
PushState(u) ==
  /\ spaMonitor.isActive
  /\ spaMonitor.navigationChecks < MaxTimers
  /\ url' = u
  /\ spaMonitor' = [spaMonitor EXCEPT !.navigationChecks = @ + 1]
  /\ UNCHANGED <<overlayVars, passes, hist, pageChangeTimers, deepwikiVars>>

\* the 100 ms timer of a wrapped history method fires
NavigationCheckFires ==
  /\ spaMonitor.navigationChecks > 0
  /\ CheckNavigationChange([spaMonitor EXCEPT !.navigationChecks = @ - 1], url)
  /\ UNCHANGED <<url, passes, hist, deepwikiVars>>

\* back or forward: popstate
PopState(u) ==
  /\ spaMonitor.isActive
  /\ url' = u
  /\ CheckNavigationChange(spaMonitor, u)
  /\ UNCHANGED <<passes, hist, deepwikiVars>>

\* handlePageChange and handleContentChange from the validity test on
StartInitializePage ==
  IF IsValidDeepWikiPage(dom)
  THEN /\ FreeSlots # {}
       /\ passes' = [passes EXCEPT ![FreeSlot] = BeginPass("initializePage")]
  ELSE UNCHANGED passes

\* the 500 ms timer of the navigation callback fires: handlePageChange
PageChangeTimerFires ==
  /\ pageChangeTimers > 0
  /\ pageChangeTimers' = pageChangeTimers - 1
  /\ StartInitializePage
  /\ UNCHANGED <<overlayVars, url, hist, spaMonitor, deepwikiVars>>

\* the 200 ms debounce timer fires: detectSignificantChange on the batch it
\* holds, then handleContentChange
DebounceTimerFires ==
  /\ spaMonitor.debounceTimer # "none"
  /\ spaMonitor' = [spaMonitor EXCEPT !.debounceTimer = "none"]
  /\ IF spaMonitor.debounceTimer # "other"
        /\ IsSignificantContentChange(spaMonitor.debounceTimer)
     THEN StartInitializePage
     ELSE UNCHANGED passes
  /\ UNCHANGED <<overlayVars, url, hist, pageChangeTimers, deepwikiVars>>

\* the page adds a heading, on its own or inside a new block: the waiting
\* passes are resumed, and the monitor's observer is called for the page's
\* batch and then for the batch of a pass that refreshed the overlay
ContentAdded(h, inBlock) ==
  /\ spaMonitor.isActive
  /\ Len(dom) < MaxHeadings
  /\ LET added == [Overlay EXCEPT !.dom = Append(dom, h)]
         resumed == {p \in InFlight : passes[p].pc = "waitForHeadings"}
         refreshing == \E p \in resumed : passes[p].kind = "contentInitialize"
         st == IF refreshing THEN RefreshContent(added) ELSE added
         batch == IF refreshing /\ st.controls # controls THEN "other"
                  ELSE IF inBlock THEN "block" ELSE "heading"
     IN /\ ApplyOverlay(st)
        /\ lastOp' = PageOp
        /\ passes' = [p \in 1..MaxPasses |->
                               IF p \notin resumed THEN passes[p]
                               ELSE IF passes[p].kind = "contentInitialize" THEN NoPass
                               ELSE AfterWaitForHeadings(passes[p], TRUE, Len(dom) + 1)]
        /\ spaMonitor' = Observed(spaMonitor, batch)
  /\ UNCHANGED <<url, hist, pageChangeTimers, deepwikiVars>>

\* the page removes a heading, and with it the control mounted after it
ContentRemoved(k) ==
  /\ spaMonitor.isActive
  /\ PageRemoveHeading(k, FALSE)
  /\ spaMonitor' = Observed(spaMonitor, "other")
  /\ UNCHANGED <<url, passes, hist, pageChangeTimers, deepwikiVars>>

\* the timeout of waitForHeadings (index.ts) or waitForElement (initializePage)
WaitForElementTimeout(p) ==
  /\ passes[p].pc = "waitForHeadings"
  /\ passes[p].kind # "initialize"
  /\ ResumeGateway(p, AfterWaitForHeadings(passes[p], FALSE, Len(dom)))
  /\ UNCHANGED <<url, hist, pageChangeTimers, deepwikiVars>>

\* the sleep of waitForContentStabilization (initializePage) is over
ContentStabilizationPoll(p) ==
  /\ passes[p].pc = "stabilize"
  /\ passes[p].kind = "initializePage"
  /\ ResumeGateway(p, RunStabilization([passes[p] EXCEPT !.elapsed = @ + 1], Len(dom)))
  /\ UNCHANGED <<url, hist, pageChangeTimers, deepwikiVars>>

\* a navigation or a content change of the page, counted
PageEvent ==
  /\ events < MaxEvents
  /\ events' = events + 1
  /\ UNCHANGED serviceVars

NextContent ==
  \/ ContentMain /\ UNCHANGED <<events, serviceVars>>
  \/ \E u \in Urls : PushState(u) /\ PageEvent
  \/ NavigationCheckFires /\ UNCHANGED <<events, serviceVars>>
  \/ \E u \in Urls : PopState(u) /\ PageEvent
  \/ PageChangeTimerFires /\ UNCHANGED <<events, serviceVars>>
  \/ DebounceTimerFires /\ UNCHANGED <<events, serviceVars>>
  \/ \E h \in PageHeadings, inBlock \in BOOLEAN : ContentAdded(h, inBlock) /\ PageEvent
  \/ \E k \in 1..MaxHeadings : ContentRemoved(k) /\ PageEvent
  \/ \E p \in 1..MaxPasses : WaitForElementTimeout(p) /\ UNCHANGED <<events, serviceVars>>
  \/ \E p \in 1..MaxPasses : ContentStabilizationPoll(p) /\ UNCHANGED <<events, serviceVars>>

SpecContent == InitGuarded /\ [][NextContent]_vars

(***************************************************************************)
(* Specification of the overlay manager driven by arbitrary callers.       *)
(***************************************************************************)
InitOverlay ==
  /\ dom \in InitialDocuments
  /\ controls = {}
  /\ buttons = EmptyMap
  /\ lastOp = [op |-> "none", sections |-> <<>>, skipped |-> 0, repeat |-> FALSE,
               before |-> NoBefore]
  /\ ScriptInit

NextOverlay ==
  \/ \E sections \in SectionLists : InsertButtonsCall(sections) /\ UNCHANGED scriptVars
  \/ RemoveAllButtonsCall /\ UNCHANGED scriptVars
  \/ \E h \in HeadingElements : PageAppendHeading(h) /\ UNCHANGED scriptVars
  \/ \E k \in 1..MaxHeadings, keep \in BOOLEAN :
       PageRemoveHeading(k, keep) /\ UNCHANGED scriptVars

SpecOverlay == InitOverlay /\ [][NextOverlay]_vars

NextOverlayStray ==
  \/ NextOverlay
  \/ \E k \in 1..MaxHeadings : PageRestoreMarkup(k) /\ UNCHANGED scriptVars

SpecOverlayStray == InitOverlay /\ [][NextOverlayStray]_vars

(***************************************************************************)
(* Properties of the overlay manager.                                      *)
(***************************************************************************)
\* every section of the list has a heading element of its own in document d: the
\* finder returns an element for it that no earlier section of the list got
AllMountable(d, sections) ==
  \A i \in 1..Len(sections) :
    /\ FindHeading(d, sections[i], i - 1) # 0
    /\ \A j \in 1..(i - 1) :
         FindHeading(d, sections[j], j - 1) # FindHeading(d, sections[i], i - 1)

ControlsFor(section) == {c \in controls : c.sec = section}

\* C7: after insertButtons(sections), the first call or a repeated one, no section
\* has more than one control in the document, and when every section is mountable
\* getButtonCount() = sections.length with exactly one control per section.
C7_OneControlPerSection ==
  lastOp.op = "insert" =>
    LET sections == lastOp.sections
    IN /\ \A i \in 1..Len(sections) : Cardinality(ControlsFor(sections[i])) <= 1
       /\ AllMountable(dom, sections) =>
            /\ GetButtonCount = Len(sections)
            /\ \A i \in 1..Len(sections) : Cardinality(ControlsFor(sections[i])) = 1

\* insertButtons was called twice in a row with the same two mountable sections
C7_Witness ==
  /\ lastOp.op = "insert"
  /\ lastOp.repeat
  /\ Len(lastOp.sections) = 2
  /\ AllMountable(dom, lastOp.sections)
  /\ GetButtonCount = 2

\* C8: after insertButtons(S2), every tracked control and every control element in
\* the document was mounted by this call for a section of S2 under that section's
\* button id; nothing mounted earlier (for S1, or found stray) survives.
C8_NoStaleControlAfterInsert ==
  lastOp.op = "insert" =>
    \A c \in controls \cup Range(buttons) :
      /\ ~c.stale
      /\ \E i \in 1..Len(lastOp.sections) :
           /\ c.sec = lastOp.sections[i]
           /\ c.bid = GenerateButtonId(lastOp.sections[i], i - 1)

\* the call found controls mounted for a section that is not in its own list, and
\* mounted controls itself
C8_Witness ==
  /\ lastOp.op = "insert"
  /\ \E s \in lastOp.before.trackedSecs : s \notin Range(lastOp.sections)
  /\ controls # {}

\* C9: no heading element of the document has more than one control mounted on
\* it, in any state, whatever sections the calls (fresh or stale) bring.
C9_AtMostOneControlPerHeading ==
  \A k \in 1..Len(dom) : Cardinality({c \in controls : c.on = k}) <= 1

\* a call skipped a heading because it carried the processed marker, and that
\* heading has its one control
C9_Witness ==
  /\ lastOp.op = "insert"
  /\ lastOp.skipped > 0
  /\ \E k \in 1..Len(dom) :
       dom[k].processed /\ Cardinality({c \in controls : c.on = k}) = 1

\* C10: after removeAllButtons, getButtonCount() = 0, no control element (tracked
\* or stray) is in the document and no heading carries the processed marker.
C10_RemoveAllLeavesNothing ==
  lastOp.op = "remove" =>
    /\ GetButtonCount = 0
    /\ controls = {}
    /\ \A k \in 1..Len(dom) : ~dom[k].processed

\* removeAllButtons ran on a document with tracked controls, a stray control and
\* processed headings
C10_Witness ==
  /\ lastOp.op = "remove"
  /\ lastOp.before.trackedSecs # {}
  /\ lastOp.before.stray
  /\ lastOp.before.processed

(***************************************************************************)
(* Properties of the content script for https://deepwiki.com/*.            *)
(***************************************************************************)
\* nothing of the script is pending: no pass is suspended, no timer is set
Quiescent == monitoring /\ InFlight = {} /\ ~rerunTimer

\* the overlay that one pass over the present document mounts on a clean page
FreshOverlay ==
  InsertButtons([dom |-> [k \in DOMAIN dom |-> [dom[k] EXCEPT !.processed = FALSE]],
                 controls |-> {}, buttons |-> EmptyMap, skipped |-> 0],
                ExtractHeadingSections(dom))

Converged == controls = FreshOverlay.controls /\ buttons = FreshOverlay.buttons

\* C1: at most one extraction pass is in flight in a page context, at any time.
C1_AtMostOnePassInFlight ==
  Cardinality(InFlight) <= 1

\* C2: a call of initialize() made while isInitializing is true is dropped: it
\* starts no pass, changes neither the flag, lastUrl nor the overlay, and sets no
\* timer that would start a pass later.
C2_CallWhileInitializingIsDropped ==
  [][(isInitializing /\ hist'.callResult # "none") =>
       /\ passes' = passes
       /\ isInitializing' = isInitializing
       /\ lastUrl' = lastUrl
       /\ UNCHANGED <<dom, controls, buttons>>
       /\ (rerunTimer' => rerunTimer)]_vars

\* initialize() was called while a pass was suspended, and returned at its guard
C2_Witness ==
  /\ hist.callResult = "dropped"
  /\ isInitializing
  /\ InFlight # {}

\* C3: when a navigation to another URL arrived while a pass was in flight, a new
\* pass is due once that pass is over (the rerun timer is set).
C3_NavigationDuringPassIsHandled ==
  (hist.navDropped /\ InFlight = {}) => rerunTimer

\* C4: once no pass is in flight and nothing is scheduled, the mounted controls
\* are exactly those of the sections extracted from the present page.
C4_OverlayConvergesWhenQuiescent ==
  Quiescent => Converged

\* C5: whenever no pass is in flight (the last one completed, returned early or
\* threw), isInitializing is false.
C5_FlagClearedAfterEveryPass ==
  InFlight = {} => ~isInitializing

\* a pass threw, and the flag is clear
C5_Witness ==
  /\ hist.outcome = "threw"
  /\ InFlight = {}
  /\ ~isInitializing

\* C6: a pass whose wait for headings found none ends by an early return (not by
\* an error) and leaves the document and the tracked controls as they were.
C6_NoHeadingsPassMountsNothing ==
  [][\A p \in 1..MaxPasses :
       (passes[p].pc # "none" /\ passes'[p].pc = "none" /\ ~hist'.headingsFound) =>
         /\ hist'.outcome = "noHeadings"
         /\ UNCHANGED <<dom, controls, buttons>>]_vars

\* the wait for headings timed out and the pass is over
C6_Witness ==
  /\ hist.outcome = "noHeadings"
  /\ ~hist.headingsFound
  /\ InFlight = {}
  /\ ~isInitializing

(***************************************************************************)
(* ButtonManagerService.handleButtonClick: the feedback of a clicked        *)
(* button.  The callback of a click is handleAddHeading of the content     *)
(* script, which hands the section to the background script and returns,   *)
(* or a callback that throws.                                              *)
(***************************************************************************)
\* pending revert timers of the model
MaxFeedbackTimers == 2

\* BUTTON_CONSTANTS.FEEDBACK_DURATION
SuccessDuration == 1500
ErrorDuration == 2000

ButtonStates == {"default", "adding", "success", "error"}
Callbacks == {"handleAddHeading", "throws"}

\* the buttons created by insertButtons are in the default state, and nothing of
\* theirs was handed off
FreshFeedback(tracked) ==
  [click EXCEPT !.state = [b \in DOMAIN tracked |-> "default"],
                !.adds = [b \in DOMAIN tracked |-> "none"],
                !.last = NoClick]

\* updateButtonState(buttonId, state): nothing when the id is not tracked
UpdateButtonState(states, buttonId, state) ==
  IF buttonId \in DOMAIN states THEN [states EXCEPT ![buttonId] = state] ELSE states

\* the state handleButtonClick gives the button once the callback is over
StateAfterCallback(threw) == IF threw THEN "error" ELSE "success"

\* (mutant) one duration for both
FeedbackDuration_Same(threw) == SuccessDuration

\* the delay of the setTimeout that reverts the button
FeedbackDuration(threw) == IF threw THEN ErrorDuration ELSE SuccessDuration

\* handleAddHeading: chrome.runtime.sendMessage for a heading section; the
\* function catches whatever it meets and returns without waiting for the response
HandleAddHeading(adds, buttonId) == [adds EXCEPT ![buttonId] = "sent"]

\* the click listener of ButtonFactory.create, then handleButtonClick
Click(b, callback) ==
  /\ b \in DOMAIN buttons
  /\ buttons[b] \in controls
  /\ click.state[b] # "adding"
  /\ Len(click.timers) < MaxFeedbackTimers
  /\ LET threw == callback = "throws"
         during == UpdateButtonState(click.state, b, "adding")
     IN click' = [state |-> UpdateButtonState(during, b, StateAfterCallback(threw)),
                  timers |-> Append(click.timers,
                                    [bid |-> b, after |-> FeedbackDuration(threw)]),
                  adds |-> IF threw THEN click.adds ELSE HandleAddHeading(click.adds, b),
                  last |-> [op |-> "click", bid |-> b, section |-> buttons[b].sec,
                            during |-> during[b], threw |-> threw]]
  /\ lastOp' = PageOp
  /\ UNCHANGED <<dom, controls, buttons>>

\* timer i is due before every timer set earlier: none of those has a delay
\* that ends sooner
MayFire(i) ==
  \A j \in 1..(i - 1) : click.timers[j].after > click.timers[i].after

\* the revert timer fires: updateButtonState(buttonId, "default")
FeedbackTimerFires(i) ==
  /\ i \in 1..Len(click.timers)
  /\ MayFire(i)
  /\ LET timer == click.timers[i]
     IN click' = [click EXCEPT
                    !.state = UpdateButtonState(@, timer.bid, "default"),
                    !.timers = [k \in 1..(Len(@) - 1) |->
                                  IF k < i THEN @[k] ELSE @[k + 1]],
                    !.last = [op |-> "timer", bid |-> timer.bid, section |-> <<>>,
                              during |-> "none", threw |-> FALSE]]
  /\ lastOp' = PageOp
  /\ UNCHANGED <<dom, controls, buttons>>

\* the response of the background script reaches the callback of sendMessage,
\* which logs it
AddResponse(b, success) ==
  /\ b \in DOMAIN click.adds
  /\ click.adds[b] = "sent"
  /\ click' = [click EXCEPT !.adds[b] = IF success THEN "stored" ELSE "failed",
                            !.last = [op |-> "response", bid |-> b, section |-> <<>>,
                                      during |-> "none", threw |-> FALSE]]
  /\ lastOp' = PageOp
  /\ UNCHANGED <<dom, controls, buttons>>

clickOtherVars == <<url, monitoring, isInitializing, lastUrl, rerunTimer, passes, hist,
                    spaMonitor, pageChangeTimers, events, usecase, spa, unloaded, waiter,
                    parser, store, wiring, collector>>

NextClick ==
  \/ /\ InsertButtonsCall(ExtractHeadingSections(dom))
     /\ click' = FreshFeedback(buttons')
     /\ UNCHANGED clickOtherVars
  \/ /\ RemoveAllButtonsCall
     /\ click' = FreshFeedback(buttons')
     /\ UNCHANGED clickOtherVars
  \/ \E b \in DOMAIN buttons, callback \in Callbacks :
       Click(b, callback) /\ UNCHANGED clickOtherVars
  \/ \E i \in 1..MaxFeedbackTimers : FeedbackTimerFires(i) /\ UNCHANGED clickOtherVars
  \/ \E b \in DOMAIN buttons, success \in BOOLEAN :
       AddResponse(b, success) /\ UNCHANGED clickOtherVars

InitClick ==
  /\ dom \in InitialPages
  /\ controls = {}
  /\ buttons = EmptyMap
  /\ lastOp = PageOp
  /\ ScriptInit

SpecClick == InitClick /\ [][NextClick]_vars

(***************************************************************************)
(* Properties of the click feedback.                                       *)
(***************************************************************************)
PendingRevert(b, after) ==
  \E i \in 1..Len(click.timers) :
    click.timers[i].bid = b /\ click.timers[i].after = after

\* C11: a click puts the button in the adding state while the callback runs, calls
\* the callback with the button's section, and leaves the button in success with a
\* revert due after 1500 ms when the callback returned, in error with a revert due
\* after 2000 ms when it threw; the revert puts the button in the default state.
C11_ClickFeedback ==
  /\ click.last.op = "click" =>
       /\ click.last.during = "adding"
       /\ click.last.section = buttons[click.last.bid].sec
       /\ click.state[click.last.bid] = (IF click.last.threw THEN "error" ELSE "success")
  /\ \A b \in DOMAIN click.state :
       /\ click.state[b] # "adding"
       /\ click.state[b] = "success" => PendingRevert(b, SuccessDuration)
       /\ click.state[b] = "error" => PendingRevert(b, ErrorDuration)
  /\ (click.last.op = "timer" /\ click.last.bid \in DOMAIN click.state) =>
       click.state[click.last.bid] = "default"

\* the revert timer of one clicked button has fired and the button is back in the
\* default state, while another button, whose callback threw, still shows the error
C11_Witness ==
  /\ click.last.op = "timer"
  /\ \E b \in DOMAIN click.state : b = click.last.bid /\ click.state[b] = "default"
  /\ \E b \in DOMAIN click.state : click.state[b] = "error"

\* C12: a button shows success only when the add handed off by its click has been
\* confirmed stored, and shows the error state when that add failed.
C12_FeedbackFollowsPersistence ==
  \A b \in DOMAIN click.state :
    /\ click.state[b] = "success" => click.adds[b] = "stored"
    /\ click.adds[b] = "failed" => click.state[b] = "error"

(***************************************************************************)
(* AddHeadingSectionUseCase.execute, with a repository that behaves as     *)
(* IHeadingSectionRepository declares (addSection resolves or throws), or  *)
(* with ChromeStorageHeadingSectionRepository, the one the background      *)
(* script constructs the use case with.  Numbers are held in tenths so     *)
(* that a level that is not an integer is an input.                        *)
(***************************************************************************)
Undefined == [type |-> "undefined", value |-> <<>>]
NotAString == [type |-> "number", value |-> <<>>]
Str(s) == [type |-> "string", value |-> s]

Levels == {0, 10, 15, 60, 70}
Titles == {Undefined, NotAString, Str(<<>>), Str(<<" ">>), Str(<<"a">>)}
SourceUrls == {Undefined, Str(<<>>), Str(<<"a">>), Str(<<"h", ":", "a">>)}
Contents == {Undefined, NotAString, Str(<<"a">>)}
Ids == {Undefined, NotAString, Str(<<" ">>), Str(<<"x">>)}
AddHeadingSectionInputs ==
  [level : Levels, title : Titles, sourceUrl : SourceUrls, content : Contents, id : Ids]

IsInteger(tenths) == tenths % 10 = 0

\* new URL(s) does not throw: s begins with a scheme, letters up to a colon
ParsesAsUrl(s) ==
  \E i \in 2..Len(s) :
    /\ s[i] = ":"
    /\ \A j \in 1..(i - 1) : \E k \in 1..26 : s[j] = LowerCaseLetters[k]

\* validateInput: the field of the InputValidationError it throws, or "ok"
ValidateInput(input) ==
  IF ~IsInteger(input.level) \/ input.level < 10 \/ input.level > 60 THEN "level"
  ELSE IF \/ input.title.type # "string"
          \/ input.title.value = <<>>
          \/ Len(Trim(input.title.value)) = 0 THEN "title"
  ELSE IF input.sourceUrl.type # "string" \/ input.sourceUrl.value = <<>>
       THEN "sourceUrl"
  ELSE IF ~ParsesAsUrl(input.sourceUrl.value) THEN "sourceUrl"
  ELSE IF input.content.type \notin {"undefined", "string"} THEN "content"
  ELSE IF /\ input.id.type # "undefined"
          /\ (input.id.type # "string" \/ Len(Trim(input.id.value)) = 0) THEN "id"
  ELSE "ok"

\* the classes of the errors, each with the class it extends
Extends ==
  [InputValidationError |-> "Error",
   RepositoryError |-> "Error",
   StorageQuotaExceededError |-> "RepositoryError",
   SectionNotFoundError |-> "RepositoryError",
   InvalidSectionError |-> "RepositoryError",
   Error |-> "Object"]

RECURSIVE InstanceOf(_, _)
InstanceOf(class, of) ==
  IF class = of THEN TRUE
  ELSE IF class = "Object" THEN FALSE
  ELSE InstanceOf(Extends[class], of)

\* handleError
HandleError(error) ==
  [success |-> FALSE,
   errorCode |-> IF InstanceOf(error, "InputValidationError") THEN "INVALID_INPUT"
                 ELSE IF InstanceOf(error, "StorageQuotaExceededError")
                      THEN "STORAGE_QUOTA_EXCEEDED"
                 ELSE IF InstanceOf(error, "InvalidSectionError") THEN "INVALID_INPUT"
                 ELSE IF InstanceOf(error, "RepositoryError") THEN "REPOSITORY_ERROR"
                 ELSE "UNKNOWN_ERROR"]

\* what went wrong when a repository throws an error of the class
FailureKind(class) ==
  CASE class = "StorageQuotaExceededError" -> "quota"
    [] class = "InvalidSectionError" -> "validation"
    [] class \in {"RepositoryError", "SectionNotFoundError"} -> "repository"
    [] OTHER -> "other"

Repositories == {"IHeadingSectionRepository", "ChromeStorageHeadingSectionRepository"}
RepositoryErrors ==
  {"StorageQuotaExceededError", "InvalidSectionError", "SectionNotFoundError",
   "RepositoryError", "Error"}

\* repository.sectionExists(sectionId) settles.  The Chrome repository catches
\* what getSectionById throws and answers false.
SectionExistsOutcomes(repository) ==
  {[throws |-> "none", exists |-> e] : e \in BOOLEAN}
    \cup (IF repository = "IHeadingSectionRepository"
          THEN {[throws |-> c, exists |-> FALSE] : c \in RepositoryErrors}
          ELSE {})

\* repository.addSection(section) settles.  The Chrome repository catches what
\* saveSections throws (quota exceeded, or another storage error) and resolves
\* to Result.failure(new RepositoryError(..)).
AddSectionOutcomes(repository) ==
  {[throws |-> "none", failure |-> "none", stored |-> TRUE]}
    \cup (IF repository = "IHeadingSectionRepository"
          THEN {[throws |-> c, failure |-> FailureKind(c), stored |-> FALSE] :
                  c \in RepositoryErrors}
          ELSE {[throws |-> "none", failure |-> k, stored |-> FALSE] :
                  k \in {"quota", "repository"}})

\* execute(input) up to its first await
Execute(repository, input) ==
  /\ usecase.pc = "idle"
  /\ usecase' =
       IF ValidateInput(input) # "ok"
       THEN [usecase EXCEPT !.pc = "done", !.repository = repository, !.input = input,
                            !.failure = "validation",
                            !.result = HandleError("InputValidationError")]
       ELSE [usecase EXCEPT !.pc = "sectionExists", !.repository = repository,
                            !.input = input]

\* execute from the answer of sectionExists to the await of addSection
SectionExistsSettles(outcome) ==
  /\ usecase.pc = "sectionExists"
  /\ outcome \in SectionExistsOutcomes(usecase.repository)
  /\ usecase' =
       IF outcome.throws # "none"
       THEN [usecase EXCEPT !.pc = "done", !.failure = FailureKind(outcome.throws),
                            !.result = HandleError(outcome.throws)]
       ELSE IF outcome.exists
       THEN [usecase EXCEPT !.pc = "done", !.failure = "validation",
                            !.result = [success |-> FALSE, errorCode |-> "INVALID_INPUT"]]
       ELSE [usecase EXCEPT !.pc = "addSection"]

\* execute from the answer of addSection on; the value addSection resolved to
\* is not looked at
AddSectionSettles(outcome) ==
  /\ usecase.pc = "addSection"
  /\ outcome \in AddSectionOutcomes(usecase.repository)
  /\ usecase' =
       [usecase EXCEPT !.pc = "done", !.failure = outcome.failure,
                       !.stored = outcome.stored,
                       !.result = IF outcome.throws # "none"
                                  THEN HandleError(outcome.throws)
                                  ELSE [success |-> TRUE, errorCode |-> "none"]]

usecaseOtherVars == <<dom, controls, buttons, lastOp, url, monitoring, isInitializing,
                      lastUrl, rerunTimer, passes, hist, spaMonitor, pageChangeTimers,
                      events, click, spa, unloaded, waiter, parser, store, wiring, collector>>

InitAdd ==
  /\ dom = <<>>
  /\ controls = {}
  /\ buttons = EmptyMap
  /\ lastOp = PageOp
  /\ ScriptInit

NextAdd ==
  \/ \E repository \in Repositories, input \in AddHeadingSectionInputs :
       Execute(repository, input) /\ UNCHANGED usecaseOtherVars
  \/ \E outcome \in SectionExistsOutcomes(usecase.repository) :
       SectionExistsSettles(outcome) /\ UNCHANGED usecaseOtherVars
  \/ \E outcome \in AddSectionOutcomes(usecase.repository) :
       AddSectionSettles(outcome) /\ UNCHANGED usecaseOtherVars

SpecAdd == InitAdd /\ [][NextAdd]_vars

\* the error code the result is to carry for what went wrong
CodeOf(failure) ==
  CASE failure = "validation" -> "INVALID_INPUT"
    [] failure = "quota" -> "STORAGE_QUOTA_EXCEEDED"
    [] failure = "repository" -> "REPOSITORY_ERROR"
    [] failure = "other" -> "UNKNOWN_ERROR"
    [] OTHER -> "none"

\* C13: execute resolves to a structured result that is a success only when
\* nothing went wrong and the section is stored, and that otherwise carries the
\* code of the failure: INVALID_INPUT for a validation failure,
\* STORAGE_QUOTA_EXCEEDED for a quota failure, REPOSITORY_ERROR for another
\* repository failure, UNKNOWN_ERROR for anything else.
C13_AddFailureIsReported ==
  usecase.pc = "done" =>
    /\ usecase.result.success <=> (usecase.failure = "none" /\ usecase.stored)
    /\ usecase.result.errorCode = CodeOf(usecase.failure)

(***************************************************************************)
(* SPAMonitorService, with the window it acts on: the page calls           *)
(* history.pushState / replaceState through whatever is installed, goes    *)
(* back or forward (popstate), and adds nodes to the document; another     *)
(* script may wrap the history methods too.  The callbacks given to        *)
(* startMonitoring return or throw (an async function, as the callbacks of *)
(* ChromeDomGateway.startSPAMonitoring are, returns: a promise).           *)
(***************************************************************************)
MaxNavigationChecks == 2
MaxAdded == 2

\* DomHelpers.hasValidContent(element, 2, 50) in isSignificantElement
MinHeadingCount == 2
MinTextLength == 50

CallbackKinds == {"returns", "throws"}

Min(a, b) == IF a < b THEN a ELSE b

AddedNodes ==
  {[tag |-> "#text", headings |-> 0, textLength |-> 60, markdown |-> FALSE],
   [tag |-> "h2", headings |-> 0, textLength |-> 10, markdown |-> FALSE],
   [tag |-> "article", headings |-> 0, textLength |-> 10, markdown |-> FALSE],
   [tag |-> "div", headings |-> 2, textLength |-> 10, markdown |-> FALSE],
   [tag |-> "div", headings |-> 1, textLength |-> 60, markdown |-> FALSE],
   [tag |-> "div", headings |-> 1, textLength |-> 10, markdown |-> FALSE],
   [tag |-> "div", headings |-> 0, textLength |-> 60, markdown |-> TRUE],
   [tag |-> "div", headings |-> 0, textLength |-> 60, markdown |-> FALSE]}

\* the added nodes of the mutation records one observer callback is given, in
\* order (records that only remove nodes add nothing)
Batches == SeqsUpTo(AddedNodes, MaxAdded)

\* the batches of the specification of the whole monitor: an added heading, and
\* an added text node
SomeBatches == {b \in Batches : Len(b) = 1 /\ b[1].tag \in {"h2", "#text"}}

\* the first element matching .markdown-body, article or .prose inside an element
MarkdownInside == [tag |-> "article", headings |-> 0, textLength |-> 0, markdown |-> FALSE]

IsElement(node) == node.tag # "#text"

\* (mutant) text alone is enough
HasValidContent_TextOnly(element, minHeadingCount, minTextLength) ==
  element.headings >= minHeadingCount \/ element.textLength >= minTextLength

\* DomHelpers.hasValidContent
HasValidContent(element, minHeadingCount, minTextLength) ==
  \/ element.headings >= minHeadingCount
  \/ (element.headings > 0 /\ element.textLength >= minTextLength)

\* isSignificantElement
IsSignificantElement(element) ==
  \/ element.tag \in {".markdown-body", "article", ".prose", "main", "[role='main']"}
  \/ element.tag \in {"h1", "h2", "h3", "h4", "h5", "h6"}
  \/ HasValidContent(element, MinHeadingCount, MinTextLength)

\* findSignificantChildElement
FindSignificantChildElement(element) ==
  IF element.headings > 0 THEN element
  ELSE IF element.markdown THEN MarkdownInside
  ELSE NoElement

\* detectSignificantChange
DetectSignificantChange(mutations) ==
  LET hits == SelectSeq(mutations,
                LAMBDA node : /\ IsElement(node)
                              /\ \/ IsSignificantElement(node)
                                 \/ FindSignificantChildElement(node) # NoElement)
  IN IF hits = <<>> THEN NoElement
     ELSE IF IsSignificantElement(Head(hits)) THEN Head(hits)
     ELSE FindSignificantChildElement(Head(hits))

Thrown(callbacks) == {i \in DOMAIN callbacks : callbacks[i] = "throws"}

\* (mutant) forEach without the try/catch: it ends at the first listener that throws
InvokeAll_NoCatch(callbacks) ==
  IF Thrown(callbacks) = {} THEN [invoked |-> Len(callbacks), caught |-> 0, escaped |-> FALSE]
  ELSE [invoked |-> CHOOSE i \in Thrown(callbacks) : \A j \in Thrown(callbacks) : i <= j,
        caught |-> 0, escaped |-> TRUE]

\* callbacks.forEach((callback) => { try { callback(..) } catch { console.error } })
InvokeAll(callbacks) ==
  [invoked |-> Len(callbacks), caught |-> Cardinality(Thrown(callbacks)),
   escaped |-> FALSE]

\* (mutant) the URL is not compared
UrlDiffers_Always(currentUrl, last) == TRUE

\* currentUrl !== this.lastUrl
UrlDiffers(currentUrl, last) == currentUrl # last

Delivery(monitor, op) ==
  [NoDelivery EXCEPT !.op = op, !.active = monitor.isActive,
                     !.history = monitor.history, !.caughtBefore = monitor.caught]

\* checkNavigationChange
NavigationChange(monitor, currentUrl, op) ==
  LET changed == UrlDiffers(currentUrl, monitor.lastUrl)
      run == InvokeAll(monitor.navigationCallbacks)
      notified == [monitor EXCEPT !.notified = Min(@ + 1, 2)]
  IN IF changed
     THEN [notified EXCEPT
             !.lastUrl = currentUrl,
             !.invoked = Min(@ + run.invoked, 2),
             !.caught = Min(@ + run.caught, 2),
             !.last = [Delivery(monitor, op) EXCEPT !.changed = TRUE,
                                                    !.navigation = run.invoked,
                                                    !.escaped = run.escaped]]
     ELSE [notified EXCEPT !.last = Delivery(monitor, op)]

\* restoreHistoryMethods
RestoreHistoryMethods(monitor) ==
  IF monitor.original.saved
  THEN [monitor EXCEPT !.history = monitor.original.fn,
                       !.original = [saved |-> FALSE, fn |-> Native]]
  ELSE monitor

\* (mutant) without the early return and without the tests for null
Stopped_Unguarded(monitor) ==
  [monitor EXCEPT !.observer = FALSE,
                  !.debounceTimer = [pending |-> FALSE, mutations |-> <<>>],
                  !.history = IF monitor.original.saved THEN monitor.original.fn
                              ELSE <<"null">>,
                  !.original = [saved |-> FALSE, fn |-> Native],
                  !.popstate = FALSE,
                  !.navigationCallbacks = <<>>, !.contentCallbacks = <<>>,
                  !.isActive = FALSE]

\* stopMonitoring
Stopped(monitor) ==
  IF ~monitor.isActive THEN monitor
  ELSE [RestoreHistoryMethods(monitor) EXCEPT
          !.observer = FALSE,
          !.debounceTimer = [pending |-> FALSE, mutations |-> <<>>],
          !.popstate = FALSE,
          !.navigationCallbacks = <<>>, !.contentCallbacks = <<>>,
          !.isActive = FALSE]

\* startMonitoring(onNavigationChange, onContentChange)
StartMonitoring(onNavigationChange, onContentChange) ==
  /\ spa' = IF spa.isActive THEN [spa EXCEPT !.last = Delivery(spa, "start")]
            ELSE [spa EXCEPT
                    !.navigationCallbacks = Append(@, onNavigationChange),
                    !.contentCallbacks = Append(@, onContentChange),
                    !.lastUrl = url,
                    !.isActive = TRUE,
                    !.original = [saved |-> TRUE, fn |-> spa.history],
                    !.history = <<"monitor">> \o @,
                    !.popstate = TRUE,
                    !.observer = TRUE,
                    !.notified = 0, !.invoked = 0, !.caught = 0,
                    !.last = Delivery(spa, "start")]
  /\ UNCHANGED url

StopMonitoring ==
  /\ spa' = [Stopped(spa) EXCEPT !.last = Delivery(spa, "stop")]
  /\ UNCHANGED url

\* another script wraps the history methods that are installed
ForeignWrap ==
  /\ \A i \in DOMAIN spa.history : spa.history[i] # "other"
  /\ spa' = [spa EXCEPT !.history = <<"other">> \o @, !.last = Delivery(spa, "wrap")]
  /\ UNCHANGED url

\* the page calls history.pushState or history.replaceState: the native method
\* runs, and the monitor's wrapper, when it is in the chain, sets its 100 ms timer
HistoryCall(u) ==
  /\ spa.navigationChecks < MaxNavigationChecks
  /\ url' = u
  /\ LET wrapped == \E i \in DOMAIN spa.history : spa.history[i] = "monitor"
         moved == IF u # url THEN [spa EXCEPT !.notified = 0, !.invoked = 0] ELSE spa
     IN spa' = [moved EXCEPT !.navigationChecks = IF wrapped THEN @ + 1 ELSE @,
                             !.last = Delivery(spa, "history")]

\* the 100 ms timer of the wrapper fires: checkNavigationChange
NavigationTimerFires ==
  /\ spa.navigationChecks > 0
  /\ spa' = NavigationChange([spa EXCEPT !.navigationChecks = @ - 1], url, "timer")
  /\ UNCHANGED url

\* back or forward: the URL changes and popstate is dispatched
PopStateEvent(u) ==
  /\ url' = u
  /\ LET moved == IF u # url THEN [spa EXCEPT !.notified = 0, !.invoked = 0] ELSE spa
     IN spa' = IF spa.popstate THEN NavigationChange(moved, u, "popstate")
               ELSE [moved EXCEPT !.last = Delivery(spa, "popstate")]

\* the page adds nodes: the observer callback restarts the 200 ms debounce timer,
\* which keeps the mutations of this callback
Mutation(mutations) ==
  /\ spa' = IF spa.observer
            THEN [spa EXCEPT !.debounceTimer = [pending |-> TRUE, mutations |-> mutations],
                             !.last = Delivery(spa, "mutation")]
            ELSE [spa EXCEPT !.last = Delivery(spa, "mutation")]
  /\ UNCHANGED url

\* the debounce timer fires
DebounceFires ==
  /\ spa.debounceTimer.pending
  /\ LET mutations == spa.debounceTimer.mutations
         significantChange == DetectSignificantChange(mutations)
         run == InvokeAll(spa.contentCallbacks)
         fired == [spa EXCEPT !.debounceTimer = [pending |-> FALSE, mutations |-> <<>>]]
         delivery == [Delivery(spa, "debounce") EXCEPT !.mutations = mutations,
                                                      !.element = significantChange]
     IN spa' = IF significantChange # NoElement
               THEN [fired EXCEPT !.caught = Min(@ + run.caught, 2),
                                  !.last = [delivery EXCEPT !.content = run.invoked,
                                                            !.escaped = run.escaped]]
               ELSE [fired EXCEPT !.last = delivery]
  /\ UNCHANGED url

monitorOtherVars == <<dom, controls, buttons, lastOp, monitoring, isInitializing, lastUrl,
                      rerunTimer, passes, hist, spaMonitor, pageChangeTimers, events,
                      click, usecase, unloaded, waiter, parser, store, wiring, collector>>

InitMonitor ==
  /\ dom = <<>>
  /\ controls = {}
  /\ buttons = EmptyMap
  /\ lastOp = PageOp
  /\ ScriptInit

NextMonitor ==
  \/ \E onNavigationChange \in CallbackKinds, onContentChange \in CallbackKinds :
       StartMonitoring(onNavigationChange, onContentChange) /\ UNCHANGED monitorOtherVars
  \/ StopMonitoring /\ UNCHANGED monitorOtherVars
  \/ ForeignWrap /\ UNCHANGED monitorOtherVars
  \/ \E u \in Urls : HistoryCall(u) /\ UNCHANGED monitorOtherVars
  \/ NavigationTimerFires /\ UNCHANGED monitorOtherVars
  \/ \E u \in Urls : PopStateEvent(u) /\ UNCHANGED monitorOtherVars
  \/ \E mutations \in SomeBatches : Mutation(mutations) /\ UNCHANGED monitorOtherVars
  \/ DebounceFires /\ UNCHANGED monitorOtherVars

SpecMonitor == InitMonitor /\ [][NextMonitor]_vars

(***************************************************************************)
(* Properties of the monitor.                                              *)
(***************************************************************************)
\* C14: the navigation callback is invoked only by a check that finds the URL
\* different from the last observed one, which it then records; between two
\* changes of the URL it is invoked at most once, however many checks run.
C14_NavigationOnlyWhenUrlDiffers ==
  /\ spa.last.navigation > 0 => (spa.last.changed /\ spa.lastUrl = url)
  /\ spa.invoked <= 1

\* two checks have run since the URL last changed, and the callback was invoked
\* by one of them
C14_Witness ==
  /\ spa.isActive
  /\ spa.last.op = "timer"
  /\ spa.notified = 2
  /\ spa.invoked = 1
  /\ spa.last.navigation = 0

Wrapped(history) == \E i \in DOMAIN history : history[i] = "monitor"

\* C15: a call of stopMonitoring on a monitor that is not active, because it was
\* never started or was stopped already, raises nothing, leaves the monitor
\* inactive with nothing installed, and leaves the history methods that are
\* installed as they were.
C15_StopWhenInactiveChangesNothing ==
  (spa.last.op = "stop" /\ ~spa.last.active) =>
    /\ ~spa.last.escaped
    /\ ~spa.isActive
    /\ ~spa.observer /\ ~spa.popstate /\ ~spa.debounceTimer.pending
    /\ spa.history = spa.last.history

\* stopMonitoring was called again on a monitor that had been started and
\* stopped, while the wrapper of another script is installed
C15_Witness ==
  /\ spa.last.op = "stop"
  /\ ~spa.last.active
  /\ spa.lastUrl # ""
  /\ spa.history = <<"other">>

\* SPAMonitorService once stopped: its observer is disconnected, its wrapper is
\* out of the history methods, its popstate listener is removed, its callback
\* lists are empty and its debounce timer is cleared; a step taken while it is
\* stopped (a navigation check set before the stop among them) invokes no callback
StoppedMonitorIsSilent ==
  /\ ~spa.isActive =>
       /\ ~spa.observer /\ ~spa.popstate /\ ~spa.debounceTimer.pending
       /\ ~Wrapped(spa.history) /\ ~spa.original.saved
       /\ spa.navigationCallbacks = <<>> /\ spa.contentCallbacks = <<>>
  /\ ~spa.last.active => (spa.last.navigation = 0 /\ spa.last.content = 0)

C16_NothingRunsAfterStop ==
  [][unloaded => (/\ rerunTimer' => rerunTimer
                  /\ InFlight' \subseteq InFlight)]_vars

(***************************************************************************)
(* The content monitoring of SPAMonitorService over every batch of added   *)
(* nodes.                                                                  *)
(***************************************************************************)
NextBatches ==
  \/ \E onNavigationChange \in CallbackKinds, onContentChange \in CallbackKinds :
       StartMonitoring(onNavigationChange, onContentChange) /\ UNCHANGED monitorOtherVars
  \/ StopMonitoring /\ UNCHANGED monitorOtherVars
  \/ \E mutations \in Batches : Mutation(mutations) /\ UNCHANGED monitorOtherVars
  \/ DebounceFires /\ UNCHANGED monitorOtherVars

SpecBatches == InitMonitor /\ [][NextBatches]_vars

\* the node is no heading and no content container, and has neither a heading
\* nor a content container inside it
Insignificant(node) ==
  \/ ~IsElement(node)
  \/ /\ node.tag \notin {"h1", "h2", "h3", "h4", "h5", "h6"}
     /\ node.tag \notin {".markdown-body", "article", ".prose", "main", "[role='main']"}
     /\ node.headings = 0
     /\ ~node.markdown

\* C19: when the debounce timer fires, the content callback is invoked only with
\* an element that detectSignificantChange found in the batch, and a batch whose
\* added nodes are all insignificant invokes no content callback.
C19_OnlySignificantChangeIsDelivered ==
  spa.last.op = "debounce" =>
    /\ spa.last.content > 0 =>
         \E i \in DOMAIN spa.last.mutations :
           /\ ~Insignificant(spa.last.mutations[i])
           /\ \/ spa.last.element = spa.last.mutations[i]
              \/ (spa.last.element = MarkdownInside /\ spa.last.mutations[i].markdown)
    /\ (\A i \in DOMAIN spa.last.mutations : Insignificant(spa.last.mutations[i])) =>
         spa.last.content = 0

\* the timer fired for a batch of a text node and an element with text and no
\* heading, on a monitor that has a content callback, and invoked nothing
C19_Witness ==
  /\ spa.last.op = "debounce"
  /\ spa.contentCallbacks # <<>>
  /\ Len(spa.last.mutations) = 2
  /\ \A i \in DOMAIN spa.last.mutations : Insignificant(spa.last.mutations[i])
  /\ \E i \in DOMAIN spa.last.mutations :
       IsElement(spa.last.mutations[i]) /\ spa.last.mutations[i].textLength >= MinTextLength
  /\ spa.last.content = 0

(***************************************************************************)
(* SPAMonitorService.waitForElement and ChromeDomGateway.waitForHeadings:  *)
(* one call, the clock, and the mutations of the container.  The timer of  *)
(* the call fires when its delay has passed, before the clock goes on.     *)
(***************************************************************************)
MaxTimeout == 2
MaxMutations == 2

Waits == {"waitForElement", "waitForHeadings"}

\* resolve(value), called by the observer callback or by the timer
Resolve(w, value) ==
  [w EXCEPT !.pc = "resolved", !.resolved = @ + 1,
            !.result = IF w.resolved = 0 THEN value ELSE @]

\* (mutant) the timer callback resolves and leaves the observer connected
AfterTimeout_Connected(w) == Resolve([w EXCEPT !.timer = FALSE], FALSE)

\* the callback of the timeout: observer.disconnect(); resolve(false)
AfterTimeout(w) == Resolve([w EXCEPT !.timer = FALSE, !.observer = FALSE], FALSE)

\* the observer callback for a mutation of the container: waitForElement queries
\* the container again, waitForHeadings looks at the added nodes
AfterMutation(w, matching) ==
  LET called == [w EXCEPT !.calls = Min(@ + 1, MaxMutations),
                          !.late = IF w.pc = "resolved" THEN Min(@ + 1, MaxMutations)
                                   ELSE @]
      found == IF w.kind = "waitForElement" THEN w.present \/ matching ELSE matching
  IN IF found
     THEN Resolve([called EXCEPT !.timer = FALSE, !.observer = FALSE], TRUE)
     ELSE called

\* the call: it resolves at once when the selector matches inside the container,
\* otherwise it connects an observer and sets the timer
WaitForElement(kind, timeout, present) ==
  /\ waiter.pc = "idle"
  /\ waiter' =
       LET w == [waiter EXCEPT !.kind = kind, !.timeout = timeout, !.present = present]
       IN IF present THEN Resolve(w, TRUE)
          ELSE [w EXCEPT !.pc = "waiting", !.observer = TRUE, !.timer = TRUE]

\* time passes; a timer that is due fires first
Tick ==
  /\ waiter.pc # "idle"
  /\ waiter.elapsed <= MaxTimeout
  /\ waiter.timer => waiter.elapsed < waiter.timeout
  /\ waiter' = [waiter EXCEPT !.elapsed = @ + 1]

WaitTimeoutFires ==
  /\ waiter.timer
  /\ waiter.elapsed = waiter.timeout
  /\ waiter' = AfterTimeout(waiter)

\* the page adds a node to the container, which matches the selector or not
ContainerMutation(matching) ==
  /\ waiter.pc # "idle"
  /\ waiter.mutations < MaxMutations
  /\ LET w == [waiter EXCEPT !.mutations = @ + 1,
                             !.present = @ \/ matching,
                             !.after = IF waiter.pc = "resolved" THEN @ + 1 ELSE @]
     IN waiter' = IF waiter.observer THEN AfterMutation(w, matching) ELSE w

waitOtherVars == <<dom, controls, buttons, lastOp, url, monitoring, isInitializing,
                   lastUrl, rerunTimer, passes, hist, spaMonitor, pageChangeTimers,
                   events, click, usecase, spa, unloaded, parser, store, wiring, collector>>

NextWait ==
  \/ \E kind \in Waits, timeout \in 1..MaxTimeout, present \in BOOLEAN :
       WaitForElement(kind, timeout, present) /\ UNCHANGED waitOtherVars
  \/ Tick /\ UNCHANGED waitOtherVars
  \/ WaitTimeoutFires /\ UNCHANGED waitOtherVars
  \/ \E matching \in BOOLEAN : ContainerMutation(matching) /\ UNCHANGED waitOtherVars

SpecWait == InitMonitor /\ [][NextWait]_vars

\* C17: a wait is over when its timeout has passed; one that resolved has resolved
\* once, has its observer disconnected and its timer gone, and no mutation after
\* that has run its callback; it resolves to false only at its timeout, when the
\* selector has matched nothing.
C17_WaitEndsAtTimeout ==
  /\ waiter.pc = "waiting" =>
       (waiter.elapsed <= waiter.timeout /\ waiter.resolved = 0 /\ ~waiter.present)
  /\ waiter.pc = "resolved" =>
       /\ waiter.resolved = 1
       /\ ~waiter.observer /\ ~waiter.timer
       /\ waiter.late = 0
       /\ ~waiter.result => waiter.elapsed >= waiter.timeout

\* the selector never matched: the wait resolved to false, after a mutation had
\* run its callback, and a mutation after the timeout ran nothing
C17_Witness ==
  /\ waiter.pc = "resolved"
  /\ ~waiter.result
  /\ ~waiter.present
  /\ waiter.calls = 1
  /\ waiter.after = 1

(***************************************************************************)
(* Properties of waitForContentStabilization.  A pass with pc "stabilize"  *)
(* is in the sleep that follows a check; when lastHeadingCount is not zero *)
(* the last stableCount + 1 counts it observed were identical.             *)
(***************************************************************************)
Stabilizing == {p \in 1..MaxPasses : passes[p].pc = "stabilize"}

\* C20 as stated: the wait returns as soon as 3 consecutive identical counts have
\* been observed, so a pass that is still waiting has observed fewer than 3.
C20_ReturnsAfterThreeIdenticalCounts ==
  \A p \in Stabilizing :
    passes[p].lastHeadingCount > 0 => passes[p].stableCount + 1 < RequiredStableChecks

\* C20: the wait goes on only while fewer than 3 checks in a row have found the
\* count, not zero, of the check before them (4 identical counts in a row end
\* it), and only while the window of 2000 ms was open at its last check, which
\* bounds its sleeps of 200 ms by 10.
C20_StabilizationWaitIsBounded ==
  \A p \in Stabilizing :
    /\ passes[p].stableCount < RequiredStableChecks
    /\ passes[p].stableCount > 0 => passes[p].lastHeadingCount > 0
    /\ passes[p].elapsed * CheckInterval < MaxWaitTime

\* a pass in the last sleep of its window, after 3 identical counts
C20_Witness ==
  \E p \in Stabilizing :
    /\ (passes[p].elapsed + 1) * CheckInterval >= MaxWaitTime
    /\ passes[p].stableCount + 1 = RequiredStableChecks
    /\ passes[p].lastHeadingCount > 0

(***************************************************************************)
(* HeadingParser (services/heading-parser.ts) and createHeadingSection.    *)
(* An element is [tagName, text, children]: text is the text it holds      *)
(* before its child elements.  A heading element is named by its path, the *)
(* positions that lead to it from the root.                                *)
(***************************************************************************)
MaxSiblings == 4
DefaultMaxContentLength == 50000
Null == <<>>

Heading(level, text) ==
  [tagName |-> CASE level = 1 -> "H1" [] level = 2 -> "H2" [] level = 3 -> "H3"
                 [] level = 4 -> "H4" [] level = 5 -> "H5" [] OTHER -> "H6",
   text |-> text, children |-> <<>>]
Paragraph(text) == [tagName |-> "P", text |-> text, children |-> <<>>]
Block(tagName, children) == [tagName |-> tagName, text |-> <<>>, children |-> children]

\* element.localName, as innerHTML writes it
LocalName(tagName) ==
  CASE tagName = "H1" -> <<"h", "1">>
    [] tagName = "H2" -> <<"h", "2">>
    [] tagName = "H3" -> <<"h", "3">>
    [] tagName = "H4" -> <<"h", "4">>
    [] tagName = "H5" -> <<"h", "5">>
    [] tagName = "H6" -> <<"h", "6">>
    [] tagName = "P" -> <<"p">>
    [] tagName = "MAIN" -> <<"m", "a", "i", "n">>
    [] OTHER -> <<"d", "i", "v">>

\* String.prototype.toUpperCase on the tag names of the model
ToUpperCaseTag(tagName) ==
  CASE tagName = "h1" -> "H1"
    [] tagName = "h2" -> "H2"
    [] tagName = "h6" -> "H6"
    [] tagName = "h7" -> "H7"
    [] tagName = "div" -> "DIV"
    [] OTHER -> tagName

\* getHeadingLevelFromTag: 0 stands for null
GetHeadingLevelFromTag(tagName) ==
  LET upper == ToUpperCaseTag(tagName)
  IN CASE upper = "H1" -> 1 [] upper = "H2" -> 2 [] upper = "H3" -> 3
       [] upper = "H4" -> 4 [] upper = "H5" -> 5 [] upper = "H6" -> 6
       [] OTHER -> 0

\* isHeadingElement: /^H[1-6]$/i
IsHeadingElement(element) == GetHeadingLevelFromTag(element.tagName) # 0

RECURSIVE TextContent(_), TextContentOfNodes(_)
TextContent(element) == element.text \o TextContentOfNodes(element.children)
TextContentOfNodes(nodes) ==
  IF nodes = <<>> THEN <<>>
  ELSE TextContent(Head(nodes)) \o TextContentOfNodes(Tail(nodes))

\* outerHTML and innerHTML (the texts of the model need no escaping)
RECURSIVE OuterHtml(_), InnerHtml(_)
OuterHtml(element) ==
  <<"<">> \o LocalName(element.tagName) \o <<">">>
    \o element.text \o InnerHtml(element.children)
    \o <<"<", "/">> \o LocalName(element.tagName) \o <<">">>
InnerHtml(nodes) ==
  IF nodes = <<>> THEN <<>>
  ELSE OuterHtml(Head(nodes)) \o InnerHtml(Tail(nodes))

\* the child elements among which the element at the path lies, and the element
RECURSIVE SiblingsAt(_, _)
SiblingsAt(nodes, path) ==
  IF Len(path) = 1 THEN nodes
  ELSE SiblingsAt(nodes[Head(path)].children, Tail(path))
ElementAt(nodes, path) == SiblingsAt(nodes, path)[path[Len(path)]]
ParentOf(path) == SubSeq(path, 1, Len(path) - 1)

HEADING_SELECTOR == "h1,h2,h3,h4,h5,h6"

\* element.matches(selector), for the selectors the model uses
Matches(element, selector) ==
  CASE selector = HEADING_SELECTOR -> IsHeadingElement(element)
    [] selector = "main" -> element.tagName = "MAIN"
    [] selector = "main, article, div" -> element.tagName \in {"MAIN", "DIV"}
    [] OTHER -> FALSE

\* querySelectorAll(selector) below the element at prefix, in document order
RECURSIVE QuerySelectorAll(_, _, _, _)
QuerySelectorAll(nodes, prefix, k, selector) ==
  IF k > Len(nodes) THEN <<>>
  ELSE (IF Matches(nodes[k], selector) THEN <<Append(prefix, k)>> ELSE <<>>)
         \o QuerySelectorAll(nodes[k].children, Append(prefix, k), 1, selector)
         \o QuerySelectorAll(nodes, prefix, k + 1, selector)

\* the constructor of HeadingParser: an option left out is 0 (maxContentLength)
\* or "undefined" (includeHeadingInContent, else "true" or "false")
HeadingParserOptions(options) ==
  [includeHeadingInContent |->
     options.includeHeadingInContent \in {"undefined", "true"},
   maxContentLength |->
     IF options.maxContentLength = 0 THEN DefaultMaxContentLength
     ELSE options.maxContentLength]

\* findContentContainer: the path of the first element that one of the
\* selectors matches (Null: none); of the selectors only main matches an
\* element of the model
FindContentContainer(nodes) ==
  LET found == QuerySelectorAll(nodes, <<>>, 1, "main")
  IN IF found = <<>> THEN Null ELSE Head(found)

\* findHeadingElements: the paths of the headings below the container, sorted
\* by document order
FindHeadingsOfParser(nodes, container) ==
  IF container = Null THEN QuerySelectorAll(nodes, <<>>, 1, HEADING_SELECTOR)
  ELSE QuerySelectorAll(ElementAt(nodes, container).children, container, 1,
                        HEADING_SELECTOR)

Ellipsis == <<".", ".", ".">>

\* (mutant) the cut keeps the whole string
NodesToHtmlString_Uncut(elements, options) == InnerHtml(elements)

\* nodesToHtmlString
NodesToHtmlString(elements, options) ==
  IF elements = <<>> THEN <<>>
  ELSE LET htmlString == InnerHtml(elements)
       IN IF options.maxContentLength # 0 /\ Len(htmlString) > options.maxContentLength
          THEN SubSeq(htmlString, 1, options.maxContentLength) \o Ellipsis
          ELSE htmlString

\* findNextRelevantHeading: the path of the heading (Null: none); positions in
\* allHeadings count from 1
FindNextRelevantHeading(nodes, allHeadings, currentIndex, currentLevel) ==
  LET later == {i \in (currentIndex + 1)..Len(allHeadings) :
                  GetHeadingLevelFromTag(ElementAt(nodes, allHeadings[i]).tagName)
                    <= currentLevel}
  IN IF later = {} THEN Null
     ELSE allHeadings[CHOOSE i \in later : \A j \in later : i <= j]

\* the loop of extractSectionContent over nextElementSibling, from sibling k on
RECURSIVE CollectSiblings(_, _, _, _, _)
CollectSiblings(siblings, parent, k, nextHeading, currentLevel) ==
  IF k > Len(siblings) THEN <<>>
  ELSE IF nextHeading # Null /\ Append(parent, k) = nextHeading THEN <<>>
  ELSE IF /\ IsHeadingElement(siblings[k])
          /\ GetHeadingLevelFromTag(siblings[k].tagName) <= currentLevel THEN <<>>
  ELSE <<siblings[k]>> \o CollectSiblings(siblings, parent, k + 1, nextHeading, currentLevel)

\* (mutant) the section ends at the next heading, whatever its level
ExtractSectionContent_UntilAnyHeading(nodes, allHeadings, currentIndex, currentLevel, options) ==
  LET path == allHeadings[currentIndex]
  IN NodesToHtmlString(
       (IF options.includeHeadingInContent THEN <<ElementAt(nodes, path)>> ELSE <<>>)
         \o CollectSiblings(SiblingsAt(nodes, path), ParentOf(path), path[Len(path)] + 1,
                            Null, 6),
       options)

\* extractSectionContent
ExtractSectionContent(nodes, allHeadings, currentIndex, currentLevel, options) ==
  LET path == allHeadings[currentIndex]
      nextHeading == FindNextRelevantHeading(nodes, allHeadings, currentIndex, currentLevel)
  IN NodesToHtmlString(
       (IF options.includeHeadingInContent THEN <<ElementAt(nodes, path)>> ELSE <<>>)
         \o CollectSiblings(SiblingsAt(nodes, path), ParentOf(path), path[Len(path)] + 1,
                            nextHeading, currentLevel),
       options)

\* `H${level}`
HeadingTagOf(level) ==
  CASE level = 1 -> "H1" [] level = 2 -> "H2" [] level = 3 -> "H3"
    [] level = 4 -> "H4" [] level = 5 -> "H5" [] level = 6 -> "H6"
    [] level = 0 -> "H0" [] level = 7 -> "H7" [] OTHER -> "H-1"

\* isValidHeadingLevel
IsValidHeadingLevel(level) == level >= 1 /\ level <= 6

\* (mutant) any tag name is taken
ValidateTagName_Skipped(tagName, level) == TRUE

\* validateTagName does not throw
ValidateTagName(tagName, level) == ToUpperCaseTag(tagName) = HeadingTagOf(level)

\* validateRequiredFields does not throw
ValidateRequiredFields(params) ==
  /\ Trim(params.titleText) # <<>>
  /\ Trim(params.contentHtml) # <<>>
  /\ Trim(params.sourceUrl) # <<>>
  /\ ParsesAsUrl(params.sourceUrl)

\* what generateUniqueSectionId returns stands for itself: an id made of the
\* clock and a random number
GeneratedId == <<"#">>

\* createHeadingSection: the section it returns (addedAt left out), or the
\* ValidationError it throws
CreateHeadingSection(params) ==
  IF /\ IsValidHeadingLevel(params.level)
     /\ ValidateTagName(params.tagName, params.level)
     /\ ValidateRequiredFields(params)
  THEN [threw |-> "none",
        section |-> [level |-> params.level,
                     tagName |-> ToUpperCaseTag(params.tagName),
                     titleText |-> Trim(params.titleText),
                     contentHtml |-> params.contentHtml,
                     sourceUrl |-> params.sourceUrl,
                     sectionId |-> IF Trim(params.sectionId) # <<>>
                                   THEN Trim(params.sectionId) ELSE GeneratedId]]
  ELSE [threw |-> "ValidationError", section |-> Null]

IsWordChar(c) ==
  \/ \E i \in 1..26 : c = UpperCaseLetters[i] \/ c = LowerCaseLetters[i]
  \/ IsDigit(c)
  \/ c = "_"

\* replace(/[^\w\s-]/g, "")
RECURSIVE KeepSlugChars(_)
KeepSlugChars(s) ==
  IF s = <<>> THEN <<>>
  ELSE (IF IsWordChar(Head(s)) \/ IsSpace(Head(s)) \/ Head(s) = "-"
        THEN <<Head(s)>> ELSE <<>>) \o KeepSlugChars(Tail(s))

Substring(s, from, to) ==
  SubSeq(s, from + 1, IF to < Len(s) THEN to ELSE Len(s))

DigitChars == <<"0", "1", "2", "3", "4", "5", "6", "7", "8", "9">>

\* generateSectionId, for an index below 10 and a heading without an id
\* attribute: `section-${index}-${slugified}`
GenerateSectionId(headingElement, index) ==
  <<"s", "e", "c", "t", "i", "o", "n", "-">> \o <<DigitChars[index + 1]>> \o <<"-">>
    \o Substring(ReplaceSpaceRuns(KeepSlugChars(ToLowerCase(Trim(TextContent(headingElement)))),
                                  <<"-">>), 0, 50)

\* parseHeadingSection for the heading at position currentIndex of allHeadings
\* (counted from 1): the section, or what it throws
ParseHeadingSection(nodes, allHeadings, currentIndex, sourceUrl, options) ==
  LET headingElement == ElementAt(nodes, allHeadings[currentIndex])
      level == GetHeadingLevelFromTag(headingElement.tagName)
      titleText == Trim(TextContent(headingElement))
      contentHtml == ExtractSectionContent(nodes, allHeadings, currentIndex, level, options)
  IN IF level = 0 THEN [threw |-> "Error", section |-> Null]
     ELSE IF Trim(titleText) = <<>> THEN [threw |-> "Error", section |-> Null]
     ELSE IF Trim(contentHtml) = <<>> THEN [threw |-> "Error", section |-> Null]
     ELSE CreateHeadingSection(
            [level |-> level, tagName |-> headingElement.tagName,
             titleText |-> titleText, contentHtml |-> contentHtml,
             sourceUrl |-> sourceUrl,
             sectionId |-> GenerateSectionId(headingElement, currentIndex - 1)])

\* (mutant) an error of one heading leaves the loop
RECURSIVE ParseEach_NoCatch(_, _, _, _, _)
ParseEach_NoCatch(nodes, allHeadings, i, sourceUrl, options) ==
  IF i > Len(allHeadings) THEN <<>>
  ELSE LET parsed == ParseHeadingSection(nodes, allHeadings, i, sourceUrl, options)
       IN IF parsed.threw # "none"
          THEN <<[at |-> allHeadings[i], threw |-> "uncaught", section |-> Null]>>
          ELSE <<[at |-> allHeadings[i], threw |-> "none", section |-> parsed.section]>>
                 \o ParseEach_NoCatch(nodes, allHeadings, i + 1, sourceUrl, options)

\* the loop of parseFromElement over the headings from position i on: for each
\* heading the section pushed or the error caught
RECURSIVE ParseEach(_, _, _, _, _)
ParseEach(nodes, allHeadings, i, sourceUrl, options) ==
  IF i > Len(allHeadings) THEN <<>>
  ELSE LET parsed == ParseHeadingSection(nodes, allHeadings, i, sourceUrl, options)
       IN <<[at |-> allHeadings[i], threw |-> parsed.threw, section |-> parsed.section]>>
            \o ParseEach(nodes, allHeadings, i + 1, sourceUrl, options)

Good(outcome) == outcome.threw = "none"
Caught(outcome) == outcome.threw \notin {"none", "uncaught"}
Uncaught(outcome) == outcome.threw = "uncaught"

Warning(says, about) == [says |-> says, about |-> about]

\* parseFromElement: the sections (from: the heading of each), the warnings
\* (the heading a warning is about, or what else it says) and the container
ParseFromElement(nodes, sourceUrl, options) ==
  LET contentContainer == FindContentContainer(nodes)
      first == IF contentContainer = Null THEN <<Warning("no container", Null)>> ELSE <<>>
      headingElements == FindHeadingsOfParser(nodes, contentContainer)
      each == ParseEach(nodes, headingElements, 1, sourceUrl, options)
      pushed == SelectSeq(each, Good)
      caught == SelectSeq(each, Caught)
      sections == [k \in 1..Len(pushed) |-> pushed[k].section]
      from == [k \in 1..Len(pushed) |-> pushed[k].at]
      warnings == first \o [k \in 1..Len(caught) |-> Warning("failed to parse", caught[k].at)]
  IN IF headingElements = <<>>
     THEN [sections |-> <<>>, from |-> <<>>, warnings |-> first \o <<Warning("no headings", Null)>>,
           contentContainer |-> contentContainer]
     ELSE IF SelectSeq(each, Uncaught) # <<>>
     THEN [sections |-> sections, from |-> from,
           warnings |-> warnings \o <<Warning("parsing failed", Null)>>,
           contentContainer |-> Null]
     ELSE [sections |-> sections, from |-> from, warnings |-> warnings,
           contentContainer |-> contentContainer]

\* the elements a container of the parser may hold, and the containers
TxtA == <<"A">>
TxtB == <<"B">>
TxtC == <<"C">>
TxtX == <<"x">>
ParserElements ==
  {Heading(2, TxtA), Heading(3, TxtB), Heading(2, TxtC), Heading(3, <<" ">>),
   Paragraph(TxtX), Block("DIV", <<Heading(2, TxtC)>>),
   Block("MAIN", <<Heading(2, TxtA), Paragraph(TxtX)>>)}
ParserContainers == SeqsUpTo(ParserElements, MaxSiblings)

ExampleUrl ==
  <<"h", "t", "t", "p", "s", ":", "/", "/", "e", "x", "a", "m", "p", "l", "e", ".",
    "c", "o", "m", "/", "r", "e", "p", "o">>

ShortMaxContentLength == 12
ParserOptions ==
  [includeHeadingInContent : {"undefined", "false"},
   maxContentLength : {0, ShortMaxContentLength}]
\* a call: the options of the parser and the source URL (the URL that does not
\* parse goes to a parser with the default options)
ParserCalls ==
  {<<options, ExampleUrl>> : options \in ParserOptions}
    \cup {<<[includeHeadingInContent |-> "undefined", maxContentLength |-> 0],
            <<"r", "e", "p", "o">>>>}

\* HeadingParser.parseFromElement(rootElement, sourceUrl), on a parser made
\* with the options
ParseFromElementCall ==
  /\ parser.op = "none"
  /\ parser' = [parser EXCEPT
       !.op = "parseFromElement",
       !.result = ParseFromElement(parser.container, parser.sourceUrl,
                                   HeadingParserOptions(parser.options))]

parserOtherVars == <<dom, controls, buttons, lastOp, url, monitoring, isInitializing,
                     lastUrl, rerunTimer, passes, hist, spaMonitor, pageChangeTimers,
                     events, click, usecase, spa, unloaded, waiter, store, wiring,
                     collector>>

InitIdle ==
  /\ dom = <<>>
  /\ controls = {}
  /\ buttons = EmptyMap
  /\ lastOp = PageOp
  /\ url = "/a"
  /\ monitoring = FALSE
  /\ isInitializing = FALSE
  /\ lastUrl = url
  /\ rerunTimer = FALSE
  /\ passes = [p \in 1..MaxPasses |-> NoPass]
  /\ hist = [outcome |-> "none", headingsFound |-> FALSE, navDropped |-> FALSE,
             callResult |-> "none"]
  /\ spaMonitor = [isActive |-> FALSE, lastUrl |-> "", debounceTimer |-> "none",
                   navigationChecks |-> 0]
  /\ pageChangeTimers = 0
  /\ events = 0
  /\ ClickInit
  /\ UseCaseInit
  /\ SpaInit
  /\ unloaded = FALSE
  /\ WaiterInit
  /\ WiringInit
  /\ CollectorInit

InitParse ==
  /\ InitIdle
  /\ StoreInit
  /\ \E container \in ParserContainers, call \in ParserCalls :
       parser = [NoParse EXCEPT !.container = container, !.options = call[1],
                                !.sourceUrl = call[2]]


\* the siblings after the heading at the path, up to the next of them that is
\* a heading of its level or above
SectionSpan(nodes, path) ==
  LET siblings == SiblingsAt(nodes, path)
      pos == path[Len(path)]
      level == GetHeadingLevelFromTag(siblings[pos].tagName)
      ends == {k \in (pos + 1)..Len(siblings) :
                 /\ IsHeadingElement(siblings[k])
                 /\ GetHeadingLevelFromTag(siblings[k].tagName) <= level}
      end == IF ends = {} THEN Len(siblings) + 1
             ELSE CHOOSE k \in ends : \A j \in ends : k <= j
  IN SubSeq(siblings, pos + 1, end - 1)

\* the string is the markup, cut at the maximum length where it is longer
IsMarkupUpTo(string, markup, maxContentLength) ==
  IF Len(markup) <= maxContentLength THEN string = markup
  ELSE /\ Len(string) >= maxContentLength
       /\ SubSeq(string, 1, maxContentLength) = SubSeq(markup, 1, maxContentLength)

\* C21: the content of a section is its heading (when the parser includes it)
\* followed by every following sibling element up to, but not including, the next
\* sibling heading whose level is <= its own; so for the siblings H2 "A", H3 "B",
\* H2 "C" the content of "A" holds "B" and what follows "B", and stops before "C".
C21_ContentSpansToNextHeadingOfLevel ==
  parser.op = "parseFromElement" =>
    LET options == HeadingParserOptions(parser.options)
    IN \A k \in 1..Len(parser.result.sections) :
         LET path == parser.result.from[k]
             own == IF options.includeHeadingInContent
                    THEN <<ElementAt(parser.container, path)>> ELSE <<>>
         IN IsMarkupUpTo(parser.result.sections[k].contentHtml,
                         InnerHtml(own \o SectionSpan(parser.container, path)),
                         options.maxContentLength)

C21_Witness ==
  /\ parser.op = "parseFromElement"
  /\ parser.container =
       <<Heading(2, TxtA), Heading(3, TxtB), Paragraph(TxtX), Heading(2, TxtC)>>
  /\ parser.options = [includeHeadingInContent |-> "undefined", maxContentLength |-> 0]
  /\ Len(parser.result.sections) = 3
  /\ parser.result.sections[1].contentHtml =
       InnerHtml(<<Heading(2, TxtA), Heading(3, TxtB), Paragraph(TxtX)>>)
  /\ parser.result.sections[2].contentHtml = InnerHtml(<<Heading(3, TxtB), Paragraph(TxtX)>>)
  /\ parser.result.sections[3].contentHtml = InnerHtml(<<Heading(2, TxtC)>>)

(***************************************************************************)
(* HeadingExtractorService.extract on a container of elements, with        *)
(* HeadingParser.parseFromContainer (heading-parser.ts)                    *)
(***************************************************************************)
\* findHeadingElements: the paths of the valid headings of the container
FindValidHeadings(nodes) ==
  LET Valid(path) == IsValidHeading([text |-> TextContent(ElementAt(nodes, path))])
  IN SelectSeq(QuerySelectorAll(nodes, <<>>, 1, HEADING_SELECTOR), Valid)

\* (mutant) a container with a heading is valid however little text it holds
IsValidContainerElement_AnyText(nodes) == FindValidHeadings(nodes) # <<>>

\* isValidContainer, for the container that holds the elements
IsValidContainerElement(nodes) ==
  /\ TextContentOfNodes(nodes) # <<>>
  /\ Len(Trim(TextContentOfNodes(nodes))) >= MinContainerText
  /\ FindValidHeadings(nodes) # <<>>

\* the options of new HeadingParser()
DefaultParserOptions ==
  [includeHeadingInContent |-> TRUE, maxContentLength |-> DefaultMaxContentLength]

\* parseHeadingSection of heading-parser.ts: no section id is passed on
ParseHeadingOfContainer(nodes, path, sourceUrl, options) ==
  LET heading == ElementAt(nodes, path)
      level == GetHeadingLevelFromTag(heading.tagName)
      own == IF options.includeHeadingInContent THEN <<heading>> ELSE <<>>
      content == own \o CollectSiblings(SiblingsAt(nodes, path), ParentOf(path),
                                        path[Len(path)] + 1, Null, level)
  IN IF level = 0 THEN [threw |-> "ParseError", section |-> Null]
     ELSE CreateHeadingSection(
            [level |-> level, tagName |-> heading.tagName,
             titleText |-> Trim(TextContent(heading)),
             contentHtml |-> NodesToHtmlString(content, options),
             sourceUrl |-> sourceUrl, sectionId |-> <<>>])

\* parseFromContainer: the sections in document order (from: the heading of
\* each) and the warnings (the extractor reads the sections only)
ParseFromContainerElement(nodes, sourceUrl, options) ==
  LET headings == QuerySelectorAll(nodes, <<>>, 1, HEADING_SELECTOR)
      each == [i \in 1..Len(headings) |->
                 [at |-> headings[i]] @@
                 ParseHeadingOfContainer(nodes, headings[i], sourceUrl, options)]
      pushed == SelectSeq(each, Good)
      caught == SelectSeq(each, Caught)
  IN [sections |-> [k \in 1..Len(pushed) |-> pushed[k].section],
      from |-> [k \in 1..Len(pushed) |-> pushed[k].at],
      warnings |-> [k \in 1..Len(caught) |-> Warning("failed to parse", caught[k].at)],
      contentContainer |-> Null]

\* HeadingExtractorService.extract
ExtractFrom(nodes, sourceUrl) ==
  IF ~IsValidContainerElement(nodes) THEN <<>>
  ELSE IF FindValidHeadings(nodes) = <<>> THEN <<>>
  ELSE ValidateAndFilterSections(
         ParseFromContainerElement(nodes, sourceUrl, DefaultParserOptions).sections)

\* HeadingParser.parseFromContainer(container, sourceUrl) of heading-parser.ts,
\* on a parser made with the options
ParseFromContainerCall ==
  /\ parser.op = "none"
  /\ parser' = [parser EXCEPT
       !.op = "parseFromContainer",
       !.result = ParseFromContainerElement(parser.container, parser.sourceUrl,
                                            HeadingParserOptions(parser.options))]

\* the level and title of each section, in order
Outline(sections) ==
  [k \in 1..Len(sections) |-> <<sections[k].level, sections[k].titleText>>]

\* the parser of either file, called on a container
NextParse ==
  \/ ParseFromElementCall /\ UNCHANGED parserOtherVars
  \/ ParseFromContainerCall /\ UNCHANGED parserOtherVars

SpecParse == InitParse /\ [][NextParse]_vars

\* a section can be made of the heading at the path: it has a title, content
\* and a source URL that parses
Producible(nodes, path, sourceUrl, options) ==
  /\ Trim(TextContent(ElementAt(nodes, path))) # <<>>
  /\ options.includeHeadingInContent \/ SectionSpan(nodes, path) # <<>>
  /\ ParsesAsUrl(sourceUrl)

\* the headings the call reads: those of the container parseFromElement finds,
\* or all of them
HeadingsRead ==
  IF parser.op = "parseFromElement"
  THEN FindHeadingsOfParser(parser.container, FindContentContainer(parser.container))
  ELSE QuerySelectorAll(parser.container, <<>>, 1, HEADING_SELECTOR)

\* C23: a heading that fails to produce a valid section (an empty title, empty
\* content, a source URL that does not parse) is left out with a warning about
\* it, the parser returns normally, and every other heading of the pass gives
\* its section, in document order.
C23_BadHeadingIsSkippedWithWarning ==
  parser.op \in {"parseFromElement", "parseFromContainer"} =>
    LET options == HeadingParserOptions(parser.options)
        result == parser.result
        headings == HeadingsRead
        good == SelectSeq(headings,
                  LAMBDA path : Producible(parser.container, path, parser.sourceUrl, options))
    IN /\ result.from = good
       /\ Len(result.sections) = Len(good)
       /\ \A i \in 1..Len(headings) :
            (\E w \in 1..Len(result.warnings) :
               result.warnings[w] = Warning("failed to parse", headings[i]))
              <=> ~Producible(parser.container, headings[i], parser.sourceUrl, options)
       /\ \A w \in 1..Len(result.warnings) : result.warnings[w].says # "parsing failed"

C23_Witness ==
  /\ parser.op = "parseFromElement"
  /\ parser.container = <<Heading(2, TxtA), Heading(3, <<" ">>), Heading(2, TxtC)>>
  /\ parser.sourceUrl = ExampleUrl
  /\ Outline(parser.result.sections) = <<<<2, TxtA>>, <<2, TxtC>>>>
  /\ parser.result.warnings =
       <<Warning("no container", Null), Warning("failed to parse", <<2>>)>>

TxtOverview == <<"O", "v", "e", "r", "v", "i", "e", "w">>
TxtSub == <<"S", "u", "b">>
TxtText == <<"t", "e", "x", "t">>
TxtMore == <<"m", "o", "r", "e">>
TxtLong == [i \in 1..ParagraphChars |-> "x"]
TxtIntro == <<"I", "n", "t", "r", "o">>
TxtIntroVariant == <<" ", " ", "i", "n", "t", "r", "o", " ", " ">>
TxtTableOfContents ==
  <<"T", "a", "b", "l", "e", " ", "o", "f", " ", "C", "o", "n", "t", "e", "n", "t", "s">>
TxtTABLE_OF_CONTENTS ==
  <<"T", "A", "B", "L", "E", " ", "O", "F", " ", "C", "O", "N", "T", "E", "N", "T", "S">>

\* the elements a container handed to the extractor may hold
ExtractorElements ==
  {Heading(1, TxtOverview), Heading(2, TxtSub),
   Paragraph(TxtText), Paragraph(TxtMore), Paragraph(TxtLong),
   Heading(2, TxtIntro), Heading(2, TxtIntroVariant),
   Heading(2, TxtA_b), Heading(3, TxtA__b),
   Heading(2, TxtTableOfContents), Heading(3, TxtTABLE_OF_CONTENTS)}
ExtractorContainers == SeqsUpTo(ExtractorElements, MaxSiblings)

\* ChromeDomGateway.extractHeadingSections(container, sourceUrl), with a
\* container
ExtractHeadingSectionsCall ==
  /\ parser.op = "none"
  /\ parser' = [parser EXCEPT
       !.op = "extract",
       !.result = [sections |-> ExtractFrom(parser.container, parser.sourceUrl)]]

InitExtract ==
  /\ InitIdle
  /\ StoreInit
  /\ \E container \in ExtractorContainers :
       parser = [NoParse EXCEPT !.container = container, !.sourceUrl = ExampleUrl]

NextExtract ==
  ExtractHeadingSectionsCall /\ UNCHANGED parserOtherVars

SpecExtract == InitExtract /\ [][NextExtract]_vars

IsOverviewExample(nodes) ==
  /\ Len(nodes) = 4
  /\ nodes[1] = Heading(1, TxtOverview)
  /\ nodes[2].tagName = "P"
  /\ nodes[3] = Heading(2, TxtSub)
  /\ nodes[4].tagName = "P"

\* C22 (as claimed): extracting from <h1>Overview</h1><p>text</p><h2>Sub</h2>
\* <p>more</p> with sourceUrl "https://example.com/repo" yields exactly 2
\* sections, in document order: level 1 "Overview" and level 2 "Sub".
C22_OverviewExampleYieldsTwoSections ==
  (/\ parser.op = "extract"
   /\ parser.sourceUrl = ExampleUrl
   /\ parser.container = <<Heading(1, TxtOverview), Paragraph(TxtText),
                           Heading(2, TxtSub), Paragraph(TxtMore)>>)
    => Outline(parser.result.sections) = <<<<1, TxtOverview>>, <<2, TxtSub>>>>

\* C22 (amended): extracting from <h1>Overview</h1><p>..</p><h2>Sub</h2><p>..</p>
\* with sourceUrl "https://example.com/repo" yields exactly 2 sections, in
\* document order: level 1 "Overview" and level 2 "Sub", when the text of the
\* container is at least 50 characters long; when it is shorter, as with the
\* paragraphs "text" and "more", it yields no section.
C22_OverviewExampleNeedsFiftyCharacters ==
  (/\ parser.op = "extract"
   /\ parser.sourceUrl = ExampleUrl
   /\ IsOverviewExample(parser.container))
    => Outline(parser.result.sections) =
         IF Len(Trim(TextContentOfNodes(parser.container))) >= 50
         THEN <<<<1, TxtOverview>>, <<2, TxtSub>>>>
         ELSE <<>>

C22_Witness ==
  /\ parser.op = "extract"
  /\ parser.container = <<Heading(1, TxtOverview), Paragraph(TxtLong),
                          Heading(2, TxtSub), Paragraph(TxtMore)>>
  /\ Len(parser.result.sections) = 2
  /\ parser.result.sections[1].contentHtml = InnerHtml(parser.container)
  /\ parser.result.sections[2].contentHtml =
       InnerHtml(<<Heading(2, TxtSub), Paragraph(TxtMore)>>)

(***************************************************************************)
(* createHeadingSection, called with parameters of its caller's choice     *)
(***************************************************************************)
SectionParams ==
  [level : {0, 1, 2, 6, 7},
   tagName : {"H0", "H1", "H2", "h2", "H3", "H6", "H7", "DIV"},
   titleText : {TxtA, <<" ">>},
   contentHtml : {TxtX, <<>>},
   sourceUrl : {ExampleUrl, <<"r", "e", "p", "o">>},
   sectionId : {<<>>, TxtX}]

CreateHeadingSectionCall(params) ==
  /\ parser.op = "none"
  /\ parser' = [parser EXCEPT !.op = "createHeadingSection", !.params = params,
                              !.result = CreateHeadingSection(params)]

InitCreate ==
  /\ InitIdle
  /\ StoreInit
  /\ ParserInit

NextCreate ==
  \E params \in SectionParams : CreateHeadingSectionCall(params) /\ UNCHANGED parserOtherVars

SpecCreate == InitCreate /\ [][NextCreate]_vars

\* the levels, each with its tag name
LevelTags ==
  {<<1, "H1">>, <<2, "H2">>, <<3, "H3">>, <<4, "H4">>, <<5, "H5">>, <<6, "H6">>}

\* C24: every section createHeadingSection returns has 1 <= level <= 6 and
\* tagName = "H" + level; a call with a level outside 1..6, or with a tag name
\* that is not "H" + level in either letter case, throws its validation error.
C24_LevelAndTagNameAgree ==
  parser.op = "createHeadingSection" =>
    /\ parser.result.threw = "none" =>
         <<parser.result.section.level, parser.result.section.tagName>> \in LevelTags
    /\ <<parser.params.level, ToUpperCaseTag(parser.params.tagName)>> \notin LevelTags
         => parser.result.threw = "ValidationError"

C24_Witness ==
  /\ parser.op = "createHeadingSection"
  /\ parser.params = [level |-> 2, tagName |-> "H3", titleText |-> TxtA,
                      contentHtml |-> TxtX, sourceUrl |-> ExampleUrl, sectionId |-> <<>>]
  /\ parser.result.threw = "ValidationError"

\* the titles of the sections that are the word, whatever the letter case
KeptAs(sections, word) ==
  {k \in 1..Len(sections) : ToLowerCase(Trim(sections[k].titleText)) = word}

HoldsHeading(nodes, text) == \E k \in 1..Len(nodes) : nodes[k] = Heading(2, text)

\* C25: of two headings titled "Intro" and "  intro  " in one pass, the
\* validator keeps exactly one.
C25_CaseVariantsKeepOne ==
  (/\ parser.op = "extract"
   /\ Len(Trim(TextContentOfNodes(parser.container))) >= 50
   /\ HoldsHeading(parser.container, TxtIntro)
   /\ HoldsHeading(parser.container, TxtIntroVariant))
    => Cardinality(KeptAs(parser.result.sections, <<"i", "n", "t", "r", "o">>)) = 1

\* the sections the validator is handed in the call of extract
ValidatorInput ==
  IF IsValidContainerElement(parser.container)
  THEN ParseFromContainerElement(parser.container, parser.sourceUrl,
                                 DefaultParserOptions).sections
  ELSE <<>>

\* C26: the output of the validator holds no two sections with the same
\* normalized (whitespace-collapsed, trimmed) title, and a section it keeps is
\* the first of the input sections with its normalized title.
C26_FirstOfEachNormalizedTitleIsKept ==
  parser.op = "extract" =>
    LET input == ValidatorInput
        output == parser.result.sections
    IN /\ \A i, j \in 1..Len(output) :
            NormalizeText(output[i].titleText) = NormalizeText(output[j].titleText)
              => i = j
       /\ \A k \in 1..Len(output) :
            \E i \in 1..Len(input) :
              /\ input[i] = output[k]
              /\ \A j \in 1..(i - 1) :
                   NormalizeText(input[j].titleText) # NormalizeText(output[k].titleText)

C26_Witness ==
  /\ parser.op = "extract"
  /\ parser.container =
       <<Heading(2, TxtA_b), Paragraph(TxtLong), Heading(3, TxtA__b)>>
  /\ Len(ValidatorInput) = 2
  /\ Outline(parser.result.sections) = <<<<2, TxtA_b>>>>

\* C27: a heading titled exactly "Table of Contents", in any letter case, is
\* never among the sections the extractor returns.
C27_TableOfContentsIsExcluded ==
  parser.op = "extract" =>
    KeptAs(parser.result.sections,
           <<"t", "a", "b", "l", "e", " ", "o", "f", " ",
             "c", "o", "n", "t", "e", "n", "t", "s">>) = {}

C27_Witness ==
  /\ parser.op = "extract"
  /\ parser.container =
       <<Heading(2, TxtTableOfContents), Paragraph(TxtLong),
         Heading(3, TxtTABLE_OF_CONTENTS), Heading(2, TxtSub)>>
  /\ Len(ValidatorInput) = 3
  /\ Outline(parser.result.sections) = <<<<2, TxtSub>>>>

\* the markup of the section of the heading at the path, before any cut
FullMarkup(nodes, path, options) ==
  InnerHtml((IF options.includeHeadingInContent THEN <<ElementAt(nodes, path)>> ELSE <<>>)
              \o SectionSpan(nodes, path))

MaxPageElements == 2
FinderMinHeadingCount == 3
FinderMinTextLength == 30

CONTENT_SELECTORS ==
  <<"#codebase-wiki-repo-page .markdown-body", "#codebase-wiki-repo-page article",
    "#codebase-wiki-repo-page .prose", "#codebase-wiki-repo-page", "main",
    "[role='main']", "article", ".content", ".markdown-body", ".prose">>

\* the selectors an element of the kind matches, and its tag
SelectorsOf(kind) ==
  CASE kind = "repo markdown" -> {"#codebase-wiki-repo-page .markdown-body", ".markdown-body"}
    [] kind = "main" -> {"main"}
    [] kind = "article" -> {"article"}
    [] kind = "content" -> {".content"}
    [] OTHER -> {}
TagOf(kind) ==
  CASE kind = "main" -> "main"
    [] kind = "article" -> "article"
    [] kind = "content" -> "section"
    [] OTHER -> "div"

PageElements ==
  [kind : {"repo markdown", "main", "article", "content", "div"},
   headings : {0, 1, 3},
   textLength : {FinderMinTextLength - 1, FinderMinTextLength}]
Pages == SeqsUpTo(PageElements, MaxPageElements)

\* safeQuerySelector(selector): the position of the first element that matches
\* (0: null), and safeQuerySelectorAll(selector): the positions of all
QueryAll(page, Selected(_)) == SelectSeq([k \in 1..Len(page) |-> k], Selected)
SafeQuerySelector(page, selector) ==
  FirstOf(QueryAll(page, LAMBDA k : selector \in SelectorsOf(page[k].kind)))
SafeQuerySelectorAll(page, tags) ==
  QueryAll(page, LAMBDA k : TagOf(page[k].kind) \in tags)

\* ContentContainerFinder.isValidContainer
IsValidContainerOfFinder(element) ==
  HasValidContent(element, FinderMinHeadingCount, FinderMinTextLength)

\* findFallbackContainer: the position of the container, or 0 for null
FindFallbackContainer(page) ==
  FirstOf(SelectSeq(SafeQuerySelectorAll(page, {"main", "article", "div"}),
                    LAMBDA k : IsValidContainerOfFinder(page[k])))

\* the loop of find over CONTENT_SELECTORS from selector i on: the position of
\* the container it returns, or 0 when it ends
RECURSIVE FindBySelector(_, _)
FindBySelector(page, i) ==
  IF i > Len(CONTENT_SELECTORS) THEN 0
  ELSE LET container == SafeQuerySelector(page, CONTENT_SELECTORS[i])
       IN IF container # 0 /\ IsValidContainerOfFinder(page[container]) THEN container
          ELSE FindBySelector(page, i + 1)

\* (mutant) without a container find returns null, as its comment says
Find_OrNull(page) ==
  LET container == FindBySelector(page, 1)
      fallbackContainer == FindFallbackContainer(page)
  IN IF container # 0 THEN [returns |-> "element", at |-> container]
     ELSE IF fallbackContainer # 0 THEN [returns |-> "element", at |-> fallbackContainer]
     ELSE [returns |-> "null", at |-> 0]

\* find: an element of the page, or document.body
Find(page) ==
  LET container == FindBySelector(page, 1)
      fallbackContainer == FindFallbackContainer(page)
  IN IF container # 0 THEN [returns |-> "element", at |-> container]
     ELSE IF fallbackContainer # 0 THEN [returns |-> "element", at |-> fallbackContainer]
     ELSE [returns |-> "document.body", at |-> 0]

\* ChromeDomGateway.findMainContentContainer()
FindMainContentContainer ==
  /\ parser.op = "none"
  /\ parser' = [parser EXCEPT !.op = "find", !.result = Find(parser.page)]

InitFind ==
  /\ InitIdle
  /\ StoreInit
  /\ \E page \in Pages : parser = [NoParse EXCEPT !.page = page]

NextFind ==
  FindMainContentContainer /\ UNCHANGED parserOtherVars

SpecFind == InitFind /\ [][NextFind]_vars

\* the element has three headings, or a heading and thirty characters of text
Passes(element) ==
  element.headings >= 3 \/ (element.headings >= 1 /\ element.textLength >= 30)

MaxStoreCalls == 2

RepoUrl == "https://example.com/repo"
OtherUrl == "https://example.com/other"

TxtLowerIntro == <<"i", "n", "t", "r", "o">>

\* what the content script sends with an "addHeadingSection" message
AddInputs ==
  {[id |-> "s1", sourceUrl |-> RepoUrl, level |-> 2, title |-> TxtIntro],
   [id |-> "s2", sourceUrl |-> RepoUrl, level |-> 2, title |-> TxtIntroVariant],
   [id |-> "s1", sourceUrl |-> RepoUrl, level |-> 3, title |-> TxtOverview],
   [id |-> "s3", sourceUrl |-> OtherUrl, level |-> 2, title |-> TxtIntro]}

\* AddHeadingSectionUseCase.createHeadingSection: the fields of the section
\* that the repository looks at
SectionOfInput(input) ==
  [sectionId |-> input.id, sourceUrl |-> input.sourceUrl, level |-> input.level,
   titleText |-> Trim(input.title)]

SectionS1 == [sectionId |-> "s1", sourceUrl |-> RepoUrl, level |-> 2, titleText |-> TxtIntro]
SectionS3 == [sectionId |-> "s3", sourceUrl |-> OtherUrl, level |-> 2, titleText |-> TxtIntro]

\* a call that carries a sectionId only
SectionWithId(sectionId) ==
  [sectionId |-> sectionId, sourceUrl |-> "", level |-> 0, titleText |-> <<>>]

SectionIds == {"s1", "s3"}

\* the collections the storage area may hold when the background script starts
StoredCollections == {<<>>, <<SectionS1>>, <<SectionS1, SectionS3>>}

NotAnswered == [success |-> FALSE, errorCode |-> "none", duplicateId |-> "none"]
Succeeded == [success |-> TRUE, errorCode |-> "none", duplicateId |-> "none"]
Failed(errorCode) == [success |-> FALSE, errorCode |-> errorCode, duplicateId |-> "none"]

NewCall(operation, at, section) ==
  [op |-> operation, pc |-> at, section |-> section, existing |-> <<>>, seen |-> <<>>,
   failed |-> FALSE, wrote |-> FALSE, data |-> "none", result |-> NotAnswered]

StartCall(call) ==
  /\ Len(store.calls) < MaxStoreCalls
  /\ store' = [store EXCEPT !.calls = Append(@, call)]

\* AddHeadingSectionUseCase.execute, steps 1 to 3 up to the await of
\* sectionExists (valid input)
ExecuteOnStore(input) ==
  StartCall(NewCall("execute", "sectionExists", SectionOfInput(input)))

\* getSectionById: the place of the first section with the id, 0 for null
GetSectionById(allSections, sectionId) ==
  IF \E i \in 1..Len(allSections) : allSections[i].sectionId = sectionId
  THEN CHOOSE i \in 1..Len(allSections) :
         /\ allSections[i].sectionId = sectionId
         /\ \A j \in 1..(i - 1) : allSections[j].sectionId # sectionId
  ELSE 0

\* sectionExists: storage.get settles; an error of getSectionById is caught
\* and answered with false
SectionExists(readFails, sectionId) ==
  IF readFails THEN FALSE ELSE GetSectionById(store.sections, sectionId) # 0

\* findDuplicateSection: the place of the first section with the sourceUrl,
\* the level and the title, trimmed and in lower case; 0 for null
FindDuplicateSection(sections, params) ==
  LET normalizedInputTitle == ToLowerCase(Trim(params.titleText))
      IsDuplicate(section) ==
        /\ section.sourceUrl = params.sourceUrl
        /\ section.level = params.level
        /\ ToLowerCase(Trim(section.titleText)) = normalizedInputTitle
  IN IF \E i \in 1..Len(sections) : IsDuplicate(sections[i])
     THEN CHOOSE i \in 1..Len(sections) :
            /\ IsDuplicate(sections[i])
            /\ \A j \in 1..(i - 1) : ~IsDuplicate(sections[j])
     ELSE 0

\* execute from the answer of sectionExists to the await of addSection
SectionExistsOnStore(c, readFails) ==
  /\ c \in 1..Len(store.calls)
  /\ store.calls[c].pc = "sectionExists"
  /\ LET sectionId == store.calls[c].section.sectionId
     IN store' = [store EXCEPT !.calls[c] =
          IF SectionExists(readFails, sectionId)
          THEN [@ EXCEPT !.pc = "done", !.seen = store.sections,
                         !.result = [success |-> FALSE, errorCode |-> "INVALID_INPUT",
                                     duplicateId |-> sectionId]]
          ELSE [@ EXCEPT !.pc = "getAllSections", !.seen = store.sections,
                         !.failed = readFails]]

\* a call of the repository's addSection (a valid section)
AddSectionOnStore(section) ==
  StartCall(NewCall("addSection", "getAllSections", section))

\* what the use case answers when addSection has resolved: execute does not
\* look at the value and answers success
AfterAddSection(call) ==
  IF call.op = "execute" THEN Succeeded ELSE NotAnswered

\* addSection up to the await of saveSections: getAllSections settles.  Its
\* error is caught by addSection, which resolves to Result.failure.
GetAllSectionsOnStore(c, readFails) ==
  /\ c \in 1..Len(store.calls)
  /\ store.calls[c].pc = "getAllSections"
  /\ LET call == store.calls[c]
     IN store' = [store EXCEPT !.calls[c] =
          IF readFails
          THEN [call EXCEPT !.pc = "done", !.failed = TRUE, !.data = "failure",
                            !.result = AfterAddSection(call)]
          ELSE [call EXCEPT !.pc = "saveSections", !.existing = store.sections]]

\* addSection: updatedSections = [...existingSections, section]
UpdatedSections(existingSections, section) == Append(existingSections, section)

\* addSection from saveSections on, and the rest of execute: storage.set
\* replaces what is under the storage key
SaveSectionsOnStore(c, writeFails) ==
  /\ c \in 1..Len(store.calls)
  /\ store.calls[c].pc = "saveSections"
  /\ LET call == store.calls[c]
     IN store' = [store EXCEPT
          !.sections = IF writeFails THEN @
                       ELSE UpdatedSections(call.existing, call.section),
          !.calls[c] = [call EXCEPT !.pc = "done",
                                    !.failed = call.failed \/ writeFails,
                                    !.wrote = ~writeFails,
                                    !.data = IF writeFails THEN "failure" ELSE "undefined",
                                    !.result = AfterAddSection(call)]]

\* RemoveHeadingSectionUseCase.execute, steps 1 and 2 up to the await of
\* getSectionById (valid input)
RemoveExecuteOnStore(sectionId) ==
  StartCall(NewCall("remove", "getSectionById", SectionWithId(sectionId)))

\* RemoveHeadingSectionUseCase.execute from the answer of getSectionById to
\* the await of removeSection.  getSectionById throws a RepositoryError when
\* the read fails, which handleError answers with REPOSITORY_ERROR.
GetSectionByIdOnStore(c, readFails) ==
  /\ c \in 1..Len(store.calls)
  /\ store.calls[c].pc = "getSectionById"
  /\ LET call == store.calls[c]
     IN store' = [store EXCEPT !.calls[c] =
          IF readFails
          THEN [call EXCEPT !.pc = "done", !.seen = store.sections, !.failed = TRUE,
                            !.result = Failed("REPOSITORY_ERROR")]
          ELSE IF GetSectionById(store.sections, call.section.sectionId) = 0
          THEN [call EXCEPT !.pc = "done", !.seen = store.sections,
                            !.result = Failed("SECTION_NOT_FOUND")]
          ELSE [call EXCEPT !.pc = "removeSection", !.seen = store.sections]]

\* a call of the repository's removeSection
RemoveSectionOnStore(sectionId) ==
  StartCall(NewCall("removeSection", "removeSection", SectionWithId(sectionId)))

\* removeSection: existingSections.filter((s) => s.sectionId !== sectionId)
FilteredSections(existingSections, sectionId) ==
  SelectSeq(existingSections, LAMBDA s : s.sectionId # sectionId)

\* what the use case answers when removeSection has resolved
AfterRemoveSection(call, data) ==
  IF call.op = "remove"
  THEN IF data = "true" THEN Succeeded ELSE Failed("REPOSITORY_ERROR")
  ELSE NotAnswered

\* removeSection without the comparison of the lengths
RemoveSectionSaves_Always(existingSections, filteredSections) == TRUE

\* whether removeSection goes on to saveSections
RemoveSectionSaves(existingSections, filteredSections) ==
  Len(filteredSections) # Len(existingSections)

\* removeSection up to the await of saveSections: getAllSections settles
RemoveSectionReadsOnStore(c, readFails) ==
  /\ c \in 1..Len(store.calls)
  /\ store.calls[c].pc = "removeSection"
  /\ LET call == store.calls[c]
         filteredSections == FilteredSections(store.sections, call.section.sectionId)
         seen == IF call.op = "removeSection" THEN store.sections ELSE call.seen
     IN store' = [store EXCEPT !.calls[c] =
          IF readFails
          THEN [call EXCEPT !.pc = "done", !.seen = seen, !.failed = TRUE,
                            !.data = "failure",
                            !.result = AfterRemoveSection(call, "failure")]
          ELSE IF RemoveSectionSaves(store.sections, filteredSections)
          THEN [call EXCEPT !.pc = "saveFiltered", !.seen = seen,
                            !.existing = store.sections]
          ELSE [call EXCEPT !.pc = "done", !.seen = seen, !.existing = store.sections,
                            !.data = "false",
                            !.result = AfterRemoveSection(call, "false")]]

\* removeSection from saveSections on, and the rest of the use case
SaveFilteredOnStore(c, writeFails) ==
  /\ c \in 1..Len(store.calls)
  /\ store.calls[c].pc = "saveFiltered"
  /\ LET call == store.calls[c]
         data == IF writeFails THEN "failure" ELSE "true"
     IN store' = [store EXCEPT
          !.sections = IF writeFails THEN @
                       ELSE FilteredSections(call.existing, call.section.sectionId),
          !.calls[c] = [call EXCEPT !.pc = "done", !.failed = writeFails,
                                    !.wrote = ~writeFails, !.data = data,
                                    !.result = AfterRemoveSection(call, data)]]

\* clearAllSections: saveSections([]), issued by the call itself
ClearAllSectionsOnStore(writeFails) ==
  /\ Len(store.calls) < MaxStoreCalls
  /\ store' = [store EXCEPT
       !.sections = IF writeFails THEN @ ELSE <<>>,
       !.calls = Append(@, [NewCall("clearAllSections", "done", SectionWithId("none"))
                              EXCEPT !.failed = writeFails, !.wrote = ~writeFails,
                                     !.data = IF writeFails THEN "failure"
                                              ELSE "undefined"])]

storeOtherVars == <<dom, controls, buttons, lastOp, url, monitoring, isInitializing,
                    lastUrl, rerunTimer, passes, hist, spaMonitor, pageChangeTimers,
                    events, click, usecase, spa, unloaded, waiter, parser, wiring,
                    collector>>

InitStore ==
  /\ InitIdle
  /\ ParserInit
  /\ \E stored \in StoredCollections :
       store = [sections |-> stored, initial |-> stored, calls |-> <<>>]

NextStore ==
  \/ \E input \in AddInputs : ExecuteOnStore(input) /\ UNCHANGED storeOtherVars
  \/ \E c \in 1..MaxStoreCalls, readFails \in BOOLEAN :
       SectionExistsOnStore(c, readFails) /\ UNCHANGED storeOtherVars
  \/ \E c \in 1..MaxStoreCalls, readFails \in BOOLEAN :
       GetAllSectionsOnStore(c, readFails) /\ UNCHANGED storeOtherVars
  \/ \E c \in 1..MaxStoreCalls, writeFails \in BOOLEAN :
       SaveSectionsOnStore(c, writeFails) /\ UNCHANGED storeOtherVars

SpecStore == InitStore /\ [][NextStore]_vars

\* the sectionIds of a list of sections
IdsOf(sections) == [i \in 1..Len(sections) |-> sections[i].sectionId]

\* C30: sectionId is unique within the stored collection: the store never
\* holds two sections with the same sectionId.
C30_SectionIdIsUnique ==
  \A i, j \in 1..Len(store.sections) :
    store.sections[i].sectionId = store.sections[j].sectionId => i = j

\* C35: execute returns success only if the repository actually stored the
\* section: when addSection resolves to a failure Result, execute returns a
\* failure result, not success.
C35_SuccessOnlyIfStored ==
  (usecase.pc = "done" /\ usecase.result.success) => usecase.stored

\* the calls of the operation that have been answered
DoneCalls(operation) ==
  {c \in 1..Len(store.calls) :
     store.calls[c].op = operation /\ store.calls[c].pc = "done"}

\* C31: adding a section for which a stored section has the same sourceUrl,
\* the same level and the same title ignoring letter case and surrounding
\* whitespace is rejected with INVALID_INPUT and addSection is not called; a
\* section that differs in sourceUrl, level or title (and in sectionId) is
\* accepted.
C31_ContentDuplicateIsRejected ==
  \A c \in DoneCalls("execute") :
    LET call == store.calls[c]
        duplicate == FindDuplicateSection(call.seen, call.section)
    IN /\ duplicate # 0 =>
            /\ call.result.errorCode = "INVALID_INPUT"
            /\ call.data = "none"
            /\ ~call.wrote
       /\ (duplicate = 0 /\ GetSectionById(call.seen, call.section.sectionId) = 0)
             => call.result.success

\* how many of the stored sections have the sectionId
StoredWithId(sectionId) ==
  Cardinality({i \in 1..Len(store.sections) : store.sections[i].sectionId = sectionId})

\* C36: when two add requests with the same sectionId have been processed,
\* no storage operation having failed, at most one of them reports success
\* and the store holds exactly one section with that sectionId.
C36_SameIdAddedOnce ==
  \A c1, c2 \in DoneCalls("execute") :
    LET first == store.calls[c1]
        second == store.calls[c2]
    IN (c1 # c2 /\ first.section.sectionId = second.section.sectionId
          /\ ~first.failed /\ ~second.failed)
         => /\ ~(first.result.success /\ second.result.success)
            /\ StoredWithId(first.section.sectionId) = 1

(***************************************************************************)
(* Calls of the repository's addSection, removeSection and                 *)
(* clearAllSections, and of RemoveHeadingSectionUseCase.execute, handled   *)
(* concurrently.                                                           *)
(***************************************************************************)
InitRepository ==
  /\ InitIdle
  /\ ParserInit
  /\ \E stored \in StoredCollections :
       store = [sections |-> stored, initial |-> stored, calls |-> <<>>]

NextRepository ==
  \/ \E section \in {SectionS1, SectionS3} :
       AddSectionOnStore(section) /\ UNCHANGED storeOtherVars
  \/ \E sectionId \in SectionIds :
       RemoveSectionOnStore(sectionId) /\ UNCHANGED storeOtherVars
  \/ \E writeFails \in BOOLEAN :
       ClearAllSectionsOnStore(writeFails) /\ UNCHANGED storeOtherVars
  \/ \E sectionId \in SectionIds :
       RemoveExecuteOnStore(sectionId) /\ UNCHANGED storeOtherVars
  \/ \E c \in 1..MaxStoreCalls, readFails \in BOOLEAN :
       GetSectionByIdOnStore(c, readFails) /\ UNCHANGED storeOtherVars
  \/ \E c \in 1..MaxStoreCalls, readFails \in BOOLEAN :
       GetAllSectionsOnStore(c, readFails) /\ UNCHANGED storeOtherVars
  \/ \E c \in 1..MaxStoreCalls, writeFails \in BOOLEAN :
       SaveSectionsOnStore(c, writeFails) /\ UNCHANGED storeOtherVars
  \/ \E c \in 1..MaxStoreCalls, readFails \in BOOLEAN :
       RemoveSectionReadsOnStore(c, readFails) /\ UNCHANGED storeOtherVars
  \/ \E c \in 1..MaxStoreCalls, writeFails \in BOOLEAN :
       SaveFilteredOnStore(c, writeFails) /\ UNCHANGED storeOtherVars

SpecRepository == InitRepository /\ [][NextRepository]_vars

\* C32: removing a sectionId that is not stored leaves the stored collection
\* unchanged: removeSection, having read a collection without the id,
\* resolves to success with data false and does not write, and
\* RemoveHeadingSectionUseCase, having read a collection without the id,
\* reports SECTION_NOT_FOUND and does not write.
C32_RemoveOfUnknownIdWritesNothing ==
  /\ \A c \in DoneCalls("removeSection") :
       LET call == store.calls[c]
       IN (~call.failed /\ GetSectionById(call.seen, call.section.sectionId) = 0)
            => call.data = "false" /\ ~call.wrote
  /\ \A c \in DoneCalls("remove") :
       LET call == store.calls[c]
       IN (~call.failed /\ GetSectionById(call.seen, call.section.sectionId) = 0)
            => /\ call.result.errorCode = "SECTION_NOT_FOUND"
               /\ call.data = "none"
               /\ ~call.wrote

C32_Witness ==
  /\ \E c \in DoneCalls("removeSection") :
       /\ store.calls[c].data = "false"
       /\ store.sections = store.initial
       /\ Len(store.sections) > 0
  /\ \E c \in DoneCalls("remove") :
       store.calls[c].result.errorCode = "SECTION_NOT_FOUND"

\* what a call does to the collection when nothing else runs beside it; a
\* call of which a storage operation failed stores nothing
EffectOf(call, sections) ==
  IF call.failed THEN sections
  ELSE CASE call.op \in {"addSection", "execute"} ->
              UpdatedSections(sections, call.section)
         [] call.op \in {"removeSection", "remove"} ->
              FilteredSections(sections, call.section.sectionId)
         [] OTHER -> <<>>

\* the collection after the calls order[k], order[k + 1], .. in this order
RECURSIVE AppliedFrom(_, _, _)
AppliedFrom(sections, order, k) ==
  IF k > Len(order) THEN sections
  ELSE AppliedFrom(EffectOf(store.calls[order[k]], sections), order, k + 1)

\* the orders of the calls
Orders ==
  {order \in [1..Len(store.calls) -> 1..Len(store.calls)] :
     \A i, j \in 1..Len(store.calls) : order[i] = order[j] => i = j}

AllCallsDone ==
  \A c \in 1..Len(store.calls) : store.calls[c].pc = "done"

\* C33: for any interleaving of concurrently handled addSection,
\* removeSection and clearAllSections calls, the stored collection, once
\* all calls are answered, is what the calls give in some sequential order.
C33_CallsAreSerializable ==
  AllCallsDone =>
    \E order \in Orders : store.sections = AppliedFrom(store.initial, order, 1)

\* C39: a revert timer only ends the feedback of the click that scheduled it:
\* when it has reset a button id, no feedback of a later click on that id, on
\* the same control or on one a later pass mounted under the id, is still
\* running (no revert timer of the id is pending).
C39_RevertEndsOwnFeedbackOnly ==
  click.last.op = "timer" =>
    ~\E i \in 1..Len(click.timers) : click.timers[i].bid = click.last.bid

(***************************************************************************)
(* The click callbacks of the mounted controls, entrypoints/content/       *)
(* index.ts with ChromeDomGateway.  initialize inserts the buttons with    *)
(* handleAddHeading.  startMonitoring gives startSPAMonitoring a function  *)
(* that calls debouncedReinitialize; the gateway takes its argument as     *)
(* onButtonClick and hands it to initializePage, which inserts the buttons *)
(* of its passes with it.  A pass is one step here.                        *)
(***************************************************************************)
ClickCallbacks == {"handleAddHeading", "debouncedReinitialize"}

\* insertButtons(sections, onButtonClick): the click listener of every button
\* that was created calls handleButtonClick with onButtonClick
WiredTo(tracked, onButtonClick) == [b \in DOMAIN tracked |-> onButtonClick]

\* what startMonitoring passes to domGateway.startSPAMonitoring
StartSPAMonitoringArgument == "debouncedReinitialize"

\* initialize() of index.ts: removeAddButtons, extractHeadingSections,
\* insertAddButtons(headingSections, handleAddHeading)
InitializeWired ==
  /\ ApplyOverlay(RefreshContent(Overlay))
  /\ lastOp' = PageOp

\* the script starts: initialize(), startMonitoring()
MainWired ==
  /\ ~wiring.started
  /\ InitializeWired
  /\ wiring' = [wiring EXCEPT !.started = TRUE,
                              !.onButtonClick = WiredTo(buttons', "handleAddHeading"),
                              !.last = NoWiredClick]

\* the 500 ms timer of debouncedReinitialize fires: initialize()
ReinitializeTimerFires ==
  /\ wiring.reinitializeTimer
  /\ InitializeWired
  /\ wiring' = [wiring EXCEPT !.reinitializeTimer = FALSE,
                              !.onButtonClick = WiredTo(buttons', "handleAddHeading"),
                              !.last = NoWiredClick]

\* a pass of the gateway: initializePage(container, url, onButtonClick) from
\* extractHeadingSections on
InitializePageWired(st, onButtonClick) ==
  /\ ApplyOverlay(RefreshPage(st))
  /\ lastOp' = PageOp
  /\ wiring' = [wiring EXCEPT
       !.onButtonClick = IF ExtractHeadingSections(st.dom) = <<>>
                         THEN [b \in DOMAIN st.buttons |-> @[b]]
                         ELSE WiredTo(buttons', onButtonClick),
       !.last = NoWiredClick]

\* the navigation callback of startSPAMonitoring: removeAddButtons, and
\* after 500 ms handlePageChange(url, onButtonClick)
PageChangeWired ==
  /\ wiring.started
  /\ InitializePageWired(RemoveAllButtons(Overlay), StartSPAMonitoringArgument)

\* the content callback of startSPAMonitoring:
\* handleContentChange(changedElement, onButtonClick)
ContentChangeWired ==
  /\ wiring.started
  /\ InitializePageWired(Overlay, StartSPAMonitoringArgument)

\* a mounted control is clicked: handleButtonClick calls the onButtonClick it
\* was inserted with.  handleAddHeading sends the section to the background
\* script; debouncedReinitialize sets the 500 ms timer.
ClickWired(b) ==
  /\ b \in DOMAIN buttons
  /\ buttons[b] \in controls
  /\ LET onButtonClick == wiring.onButtonClick[b]
     IN wiring' = [wiring EXCEPT
          !.reinitializeTimer = @ \/ onButtonClick = "debouncedReinitialize",
          !.last = [op |-> "click", bid |-> b, callback |-> onButtonClick,
                    handedOff |-> onButtonClick = "handleAddHeading"]]
  /\ UNCHANGED <<dom, controls, buttons, lastOp>>

wiringOtherVars == <<url, monitoring, isInitializing, lastUrl, rerunTimer, passes, hist,
                     spaMonitor, pageChangeTimers, events, click, usecase, spa, unloaded,
                     waiter, parser, store, collector>>

InitWired ==
  /\ dom \in InitialPages
  /\ controls = {}
  /\ buttons = EmptyMap
  /\ lastOp = PageOp
  /\ ScriptInit

NextWired ==
  \/ MainWired /\ UNCHANGED wiringOtherVars
  \/ ReinitializeTimerFires /\ UNCHANGED wiringOtherVars
  \/ PageChangeWired /\ UNCHANGED wiringOtherVars
  \/ ContentChangeWired /\ UNCHANGED wiringOtherVars
  \/ \E b \in DOMAIN buttons : ClickWired(b) /\ UNCHANGED wiringOtherVars
  \/ \E h \in PageHeadings :
       PageAppendHeading(h) /\ UNCHANGED <<wiring, wiringOtherVars>>
  \/ \E k \in 1..MaxHeadings :
       PageRemoveHeading(k, FALSE) /\ UNCHANGED <<wiring, wiringOtherVars>>

SpecWired == InitWired /\ [][NextWired]_vars

\* C34: every mounted control, whichever pass mounted it, invokes the
\* add-section hand-off for its own section when clicked.
C34_ClickHandsOff ==
  wiring.last.op = "click" => wiring.last.handedOff

(***************************************************************************)
(* HeadingSectionContentScript: collect-all and collect-one requests.      *)
(* Every request parses the document anew; the parser builds each section  *)
(* with createHeadingSection, which gives it a sectionId made of the       *)
(* hostname, the level, the title, Date.now() and Math.random(): the stamp *)
(* of a parse stands for these two, any value each time.  The background   *)
(* script answers a hand-off with success when it stored the section,      *)
(* which it refuses for a sectionId it has stored already.                 *)
(***************************************************************************)
MaxCollectRequests == 2
MaxCollectHeadings == 2
MaxStamps == 2

CollectHeadings == 1..MaxCollectHeadings
Stamps == 1..MaxStamps

\* generateUniqueSectionId for the section of a heading
UniqueSectionId(heading, stamp) == [heading |-> heading, stamp |-> stamp]

\* parseFromDocument: one section per heading of the page
ParseFromDocument(stamp) == [h \in CollectHeadings |-> UniqueSectionId(h, stamp)]

\* shouldCollectSection, for a section within the level range and with content
ShouldCollectSection(collectedSections, sectionId) ==
  sectionId \notin collectedSections

\* markSectionAsCollected
MarkSectionAsCollected(collectedSections, sectionId) ==
  collectedSections \cup {sectionId}

\* collectAllSections up to the first shouldCollectSection
CollectAllSections(stamp) ==
  /\ Len(collector.requests) < MaxCollectRequests
  /\ collector' = [collector EXCEPT !.requests =
       Append(@, [kind |-> "all", pc |-> "shouldCollect",
                  sections |-> ParseFromDocument(stamp), at |-> 1])]

\* collectHeadingSection(headingElement) up to shouldCollectSection: the
\* section of the parse whose title is the text of the element
CollectHeadingSection(heading, stamp) ==
  /\ Len(collector.requests) < MaxCollectRequests
  /\ collector' = [collector EXCEPT !.requests =
       Append(@, [kind |-> "one", pc |-> "shouldCollect",
                  sections |-> <<ParseFromDocument(stamp)[heading]>>, at |-> 1])]

\* the request goes on to its next section, or is over
NextSection(request) ==
  IF request.at < Len(request.sections)
  THEN [request EXCEPT !.pc = "shouldCollect", !.at = @ + 1]
  ELSE [request EXCEPT !.pc = "done"]

\* shouldCollectSection(section), then sendSectionToBackground(section) up to
\* the await of chrome.runtime.sendMessage
ShouldCollect(r) ==
  /\ r \in 1..Len(collector.requests)
  /\ collector.requests[r].pc = "shouldCollect"
  /\ LET request == collector.requests[r]
     IN collector' = [collector EXCEPT !.requests[r] =
          IF ShouldCollectSection(collector.collectedSections, request.sections[request.at])
          THEN [request EXCEPT !.pc = "sendMessage"]
          ELSE NextSection(request)]

\* the background script answers the message, and the request goes on: with
\* success the section is marked as collected
BackgroundAnswers(r, success) ==
  /\ r \in 1..Len(collector.requests)
  /\ collector.requests[r].pc = "sendMessage"
  /\ LET request == collector.requests[r]
         sectionId == request.sections[request.at]
     IN /\ success => sectionId \notin collector.stored
        /\ collector' =
             [collectedSections |->
                IF success THEN MarkSectionAsCollected(collector.collectedSections, sectionId)
                ELSE collector.collectedSections,
              requests |-> [collector.requests EXCEPT ![r] = NextSection(request)],
              stored |-> IF success THEN collector.stored \cup {sectionId}
                         ELSE collector.stored,
              handedOver |-> IF success THEN Append(collector.handedOver, sectionId.heading)
                             ELSE collector.handedOver]

collectorOtherVars == <<dom, controls, buttons, lastOp, url, monitoring, isInitializing,
                        lastUrl, rerunTimer, passes, hist, spaMonitor, pageChangeTimers,
                        events, click, usecase, spa, unloaded, waiter, parser, store,
                        wiring>>

InitCollect ==
  /\ dom = <<>>
  /\ controls = {}
  /\ buttons = EmptyMap
  /\ lastOp = PageOp
  /\ ScriptInit

NextCollect ==
  \/ \E stamp \in Stamps : CollectAllSections(stamp) /\ UNCHANGED collectorOtherVars
  \/ \E heading \in CollectHeadings, stamp \in Stamps :
       CollectHeadingSection(heading, stamp) /\ UNCHANGED collectorOtherVars
  \/ \E r \in 1..MaxCollectRequests : ShouldCollect(r) /\ UNCHANGED collectorOtherVars
  \/ \E r \in 1..MaxCollectRequests, success \in BOOLEAN :
       BackgroundAnswers(r, success) /\ UNCHANGED collectorOtherVars

SpecCollect == InitCollect /\ [][NextCollect]_vars

\* C40: on one page each section is handed to the background for storage
\* successfully at most once, also when collect-all and collect-one
\* requests overlap.
C40_SectionHandedOverOnce ==
  \A i, j \in 1..Len(collector.handedOver) :
    collector.handedOver[i] = collector.handedOver[j] => i = j

\* the debounce timer is pending and the batches it holds have a significant
\* added node, so that the content callback is invoked if it fires now
HoldsSignificantChange(monitor) ==
  /\ monitor.debounceTimer.pending
  /\ DetectSignificantChange(monitor.debounceTimer.mutations) # NoElement

\* C37: debouncing coalesces the batches of a window without losing
\* significant changes: a batch that arrives while the timer holds a
\* significant added node restarts the timer with that change still held, so
\* that the content callback is invoked when the window expires, even if the
\* last batch of the window contains none.
C37_DebounceKeepsSignificantChange ==
  [][(HoldsSignificantChange(spa) /\ spa'.debounceTimer.pending /\ spa'.observer)
       => HoldsSignificantChange(spa')]_vars

\* the document as the page made it: the headings without the processed markers
\* the overlay sets and removes
PageContent(d) == [i \in DOMAIN d |-> [level |-> d[i].level, text |-> d[i].text]]

\* a step in which a pass of initialize() ends while the page changes neither
\* the document nor the URL: what the observer of startMonitoring is called
\* for in this step are the changes of the overlay alone
PassEndsOnQuietPage ==
  /\ \E p \in 1..MaxPasses : passes[p] # NoPass /\ passes'[p] = NoPass
  /\ PageContent(dom') = PageContent(dom)
  /\ url' = url

====
